---------------------------- MODULE Spec2Model ----------------------------
(***************************************************************************)
(* A model of react-express (src/index.tsx): the declarative-tree compiler *)
(* (processElement / serve), the ambient context store (routeContext,      *)
(* globalContext, useRoute, useSetContext, useContext) and the request     *)
(* dispatch engine (createExpressHandler, the 405 pass, the wildcard and   *)
(* the default 404 handlers, sendResponseFromOutput).                      *)
(*                                                                         *)
(* Conventions.                                                            *)
(*  - Paths, prefixes and methods are real strings; concatenation is \o.   *)
(*  - An absent (undefined) string property is the empty string: every use *)
(*    the code makes of such a property is a truthiness test, for which    *)
(*    undefined and "" agree.                                              *)
(*  - Middleware and handlers are user code: they are named entries of the *)
(*    catalogue Behaviour, each a list of context operations and awaits    *)
(*    followed by how it finishes.                                         *)
(*  - JavaScript runs one task at a time: a request runs from its arrival, *)
(*    or from the point it resumes, up to its next await of a genuinely    *)
(*    asynchronous computation, and that run is one action.                *)
(*  - The transport (express) is modelled by its routing contract only:    *)
(*    handlers are tried in registration order, a pattern matches a path   *)
(*    segment by segment, ":name" matching any one segment.  Body parsing  *)
(*    and the cors collaborator are not modelled.                          *)
(***************************************************************************)
EXTENDS Naturals, Sequences, FiniteSets, TLC

VARIABLES
    tree,          \* the element last passed to serve
    phase,         \* "init" | "serving" | "failed" (serve threw)
    routes,        \* the module-level route table        (index.tsx:163)
    appConfig,     \* the module-level app configuration  (index.tsx:171)
    routeContext,  \* the module-level active scope       (index.tsx:18)
    globalContext, \* the process-wide fallback scope     (index.tsx:23)
    reqs,          \* per request: the request, its closure state, its response
    probe,         \* the last direct call of useSetContext / useContext
    previous       \* what the latest call of serve found when it was called

vars == <<tree, phase, routes, appConfig, routeContext, globalContext, reqs,
          probe, previous>>

-----------------------------------------------------------------------------
(* Bounds *)

MaxRequests == 2      \* requests that may be in flight together

-----------------------------------------------------------------------------
(* Strings *)

Truthy(s) == s # ""

\* String.prototype.toUpperCase / toLowerCase on the method names that occur.
toUpperCase(s) ==
    CASE s \in {"get", "GET"} -> "GET"
      [] s \in {"post", "POST"} -> "POST"
      [] s \in {"put", "PUT"} -> "PUT"
      [] s \in {"patch", "PATCH"} -> "PATCH"
      [] s \in {"delete", "DELETE"} -> "DELETE"
      [] s \in {"options", "OPTIONS"} -> "OPTIONS"
      [] s \in {"head", "HEAD"} -> "HEAD"
      [] s \in {"all", "ALL"} -> "ALL"
      [] s \in {"trace", "TRACE"} -> "TRACE"
      [] OTHER -> s

toLowerCase(s) ==
    CASE s \in {"get", "GET"} -> "get"
      [] s \in {"post", "POST"} -> "post"
      [] s \in {"put", "PUT"} -> "put"
      [] s \in {"patch", "PATCH"} -> "patch"
      [] s \in {"delete", "DELETE"} -> "delete"
      [] s \in {"options", "OPTIONS"} -> "options"
      [] s \in {"head", "HEAD"} -> "head"
      [] s \in {"all", "ALL"} -> "all"
      [] s \in {"trace", "TRACE"} -> "trace"
      [] OTHER -> s

-----------------------------------------------------------------------------
(* The declarative node model *)

NoProps ==
    [children |-> <<>>, prefix |-> "", path |-> "", method |-> "",
     handler |-> "", middleware |-> <<>>, use |-> <<>>, body |-> "",
     query |-> "", port |-> 0, cors |-> FALSE]

\* null / undefined
NullElement == [tag |-> "null", type |-> "", fc |-> FALSE, props |-> NoProps]

\* a JavaScript array of elements
ArrayOf(items) ==
    [tag |-> "array", type |-> "", fc |-> FALSE,
     props |-> [NoProps EXCEPT !.children = items]]

\* The builder functions: each returns { type: "<Kind>", props }.
App(children, port, cors, middleware) ==
    [tag |-> "element", type |-> "App", fc |-> FALSE,
     props |-> [NoProps EXCEPT !.children = children, !.port = port,
                               !.cors = cors, !.middleware = middleware]]

RouteGroup(children, prefix, middleware) ==
    [tag |-> "element", type |-> "RouteGroup", fc |-> FALSE,
     props |-> [NoProps EXCEPT !.children = children, !.prefix = prefix,
                               !.middleware = middleware]]

\* Route's children is the handler; it is kept in props.handler.
Route(handler, path, method, middleware, query, body) ==
    [tag |-> "element", type |-> "Route", fc |-> FALSE,
     props |-> [NoProps EXCEPT !.handler = handler, !.path = path,
                               !.method = method, !.middleware = middleware,
                               !.query = query, !.body = body]]

Middleware(use) ==
    [tag |-> "element", type |-> "Middleware", fc |-> FALSE,
     props |-> [NoProps EXCEPT !.use = use]]

\* An element of any other type that has children (a pass-through container).
Container(children) ==
    [tag |-> "element", type |-> "div", fc |-> FALSE,
     props |-> [NoProps EXCEPT !.children = children]]

\* JSX: <Kind ...props/> is { type: Kind (the builder function), props };
\* calling element.type(element.props) yields the builder's element.
Jsx(el) == [el EXCEPT !.fc = TRUE]

InvokeComponent(el) == [el EXCEPT !.fc = FALSE]

\* element.type === "K" || element.type.name === "K"
IsType(el, k) == el.tag = "element" /\ el.type = k

-----------------------------------------------------------------------------
(* The tree compiler: processElement.  Its effect on the module-level      *)
(* routes and appConfig is threaded through st; st.err is the message of   *)
(* the Error thrown, "" while none was thrown.                             *)

EmptyConfig == [set |-> FALSE, port |-> 0, cors |-> FALSE]

bodyAllowedMethods == {"POST", "PUT", "PATCH", "DELETE"}

\* as if a Middleware child counted only for the children that follow it:
\* the Middleware children that come before any other child
RECURSIVE GroupChildMiddlewaresLeading(_)
GroupChildMiddlewaresLeading(children) ==
    IF children = <<>> THEN <<>>
    ELSE LET child == Head(children)
         IN IF child.tag = "element" /\ child.type = "Middleware"
            THEN child.props.use \o GroupChildMiddlewaresLeading(Tail(children))
            ELSE <<>>

\* The RouteGroup's first pass: the `use` of every Middleware child, in order.
RECURSIVE GroupChildMiddlewares(_)
GroupChildMiddlewares(children) ==
    IF children = <<>> THEN <<>>
    ELSE LET child == Head(children)
         IN (IF child.tag = "element" /\ child.type = "Middleware"
             THEN child.props.use ELSE <<>>)
            \o GroupChildMiddlewares(Tail(children))

\* as if the check for a missing method were left out
ProcessRouteMissingMethod(el, pathPrefix, middlewares, st) ==
    LET props == el.props
    IN IF Truthy(props.path) /\ Truthy(props.handler)
       THEN [st EXCEPT !.routes = Append(@,
                 [method |-> toLowerCase(props.method),
                  path |-> pathPrefix \o props.path,
                  handler |-> props.handler,
                  middlewares |-> middlewares \o props.middleware,
                  querySchema |-> props.query,
                  bodySchema |-> props.body])]
       ELSE st

\* as if the body-schema check were left out
ProcessRouteBodyUnchecked(el, pathPrefix, middlewares, st) ==
    LET props == el.props
        fullPath == pathPrefix \o props.path
    IN IF Truthy(props.path) /\ Truthy(props.handler)
       THEN IF ~Truthy(props.method)
            THEN [st EXCEPT !.err = "missing method"]
            ELSE [st EXCEPT !.routes = Append(@,
                     [method |-> toLowerCase(props.method),
                      path |-> fullPath,
                      handler |-> props.handler,
                      middlewares |-> middlewares \o props.middleware,
                      querySchema |-> props.query,
                      bodySchema |-> props.body])]
       ELSE st

\* as if the accumulated prefix were not prepended
ProcessRoutePrefixDropped(el, pathPrefix, middlewares, st) ==
    LET props == el.props
        fullPath == props.path
    IN IF Truthy(props.path) /\ Truthy(props.handler)
       THEN IF ~Truthy(props.method)
            THEN [st EXCEPT !.err = "missing method"]
            ELSE IF Truthy(props.body)
                    /\ toUpperCase(props.method) \notin bodyAllowedMethods
            THEN [st EXCEPT !.err = "body schema not allowed"]
            ELSE [st EXCEPT !.routes = Append(@,
                     [method |-> toLowerCase(props.method),
                      path |-> fullPath,
                      handler |-> props.handler,
                      middlewares |-> middlewares \o props.middleware,
                      querySchema |-> props.query,
                      bodySchema |-> props.body])]
       ELSE st

\* The Route branch of processElement.
ProcessRoute(el, pathPrefix, middlewares, st) ==
    LET props == el.props
        fullPath == pathPrefix \o props.path
    IN IF Truthy(props.path) /\ Truthy(props.handler)
       THEN IF ~Truthy(props.method)
            THEN [st EXCEPT !.err = "missing method"]
            ELSE IF Truthy(props.body)
                    /\ toUpperCase(props.method) \notin bodyAllowedMethods
            THEN [st EXCEPT !.err = "body schema not allowed"]
            ELSE [st EXCEPT !.routes = Append(@,
                     [method |-> toLowerCase(props.method),
                      path |-> fullPath,
                      handler |-> props.handler,
                      middlewares |-> middlewares \o props.middleware,
                      querySchema |-> props.query,
                      bodySchema |-> props.body])]
       ELSE st

\* The RouteGroup's second pass skips its Middleware children.
NotMiddlewareChildren(children) ==
    SelectSeq(children,
              LAMBDA c : ~(c.tag = "element" /\ c.type = "Middleware"))

RECURSIVE processElement(_, _, _, _)
RECURSIVE processEach(_, _, _, _)

\* as if a node pushed its middleware onto the array it was handed instead
\* of onto a copy: what a child declares stays in the chain of the
\* children after it
RECURSIVE processEachSharedChain(_, _, _, _)
processEachSharedChain(elements, pathPrefix, middlewares, st) ==
    IF elements = <<>> \/ st.err # "" THEN st
    ELSE processEachSharedChain(
             Tail(elements), pathPrefix,
             middlewares \o Head(elements).props.middleware,
             processElement(Head(elements), pathPrefix, middlewares, st))

\* elements.forEach(el => processElement(el, pathPrefix, middlewares)); a
\* throw ends the walk.
processEach(elements, pathPrefix, middlewares, st) ==
    IF elements = <<>> \/ st.err # "" THEN st
    ELSE processEach(Tail(elements), pathPrefix, middlewares,
                     processElement(Head(elements), pathPrefix, middlewares, st))

processElement(element, pathPrefix, middlewares, st) ==
    IF st.err # "" \/ element.tag = "null" THEN st
    ELSE IF element.tag = "array"
    THEN processEach(element.props.children, pathPrefix, middlewares, st)
    ELSE IF element.fc
    THEN processElement(InvokeComponent(element), pathPrefix, middlewares, st)
    ELSE IF IsType(element, "App")
    THEN LET props == element.props
             cfg == [set |-> TRUE,
                     port |-> IF props.port # 0 THEN props.port ELSE 9000,
                     cors |-> props.cors]
         IN processEach(props.children, pathPrefix,
                        middlewares \o props.middleware,
                        [st EXCEPT !.appConfig = cfg])
    ELSE IF IsType(element, "RouteGroup")
    THEN LET props == element.props
             groupPrefix == IF Truthy(props.prefix)
                            THEN pathPrefix \o props.prefix
                            ELSE pathPrefix
             groupMiddlewares == middlewares \o props.middleware
                                 \o GroupChildMiddlewares(props.children)
         IN processEach(NotMiddlewareChildren(props.children), groupPrefix,
                        groupMiddlewares, st)
    ELSE IF IsType(element, "Route")
    THEN ProcessRoute(element, pathPrefix, middlewares, st)
    ELSE processEach(element.props.children, pathPrefix, middlewares, st)


\* as if serve walked the tree without resetting the table and the config
serveCompileKeepsTable(element, curRoutes, curConfig) ==
    processElement(element, "", <<>>,
                   [routes |-> curRoutes, appConfig |-> curConfig, err |-> ""])

\* serve's first lines: reset the table and the configuration, then walk.
serveCompile(element, curRoutes, curConfig) ==
    LET reset == [routes |-> SubSeq(curRoutes, 1, 0),
                  appConfig |-> EmptyConfig, err |-> ""]
    IN processElement(element, "", <<>>, reset)

\* const port = appConfig.port || 6969: the port app.listen is given.
listenPort(config) == IF config.port # 0 THEN config.port ELSE 6969

-----------------------------------------------------------------------------
(* Positions in a tree: the child indices leading from the root to a node. *)

RECURSIVE Positions(_)
Positions(el) ==
    {<<>>} \cup
    UNION { { <<i>> \o p : p \in Positions(el.props.children[i]) }
            : i \in 1..Len(el.props.children) }

RECURSIVE NodeAt(_, _)
NodeAt(el, pos) ==
    IF pos = <<>> THEN el
    ELSE NodeAt(el.props.children[Head(pos)], Tail(pos))

\* The concatenation, outermost first, of the prefixes of the RouteGroups
\* that properly enclose the node at pos.
RECURSIVE EnclosingPrefixes(_, _)
EnclosingPrefixes(el, pos) ==
    IF pos = <<>> THEN ""
    ELSE (IF IsType(el, "RouteGroup") THEN el.props.prefix ELSE "")
         \o EnclosingPrefixes(el.props.children[Head(pos)], Tail(pos))

\* The middleware declared by the nodes enclosing the node at pos, outermost
\* first: an App's and a RouteGroup's middleware prop, then the RouteGroup's
\* Middleware children.
RECURSIVE EnclosingMiddlewares(_, _)
EnclosingMiddlewares(el, pos) ==
    IF pos = <<>> THEN <<>>
    ELSE (IF IsType(el, "App") THEN el.props.middleware
          ELSE IF IsType(el, "RouteGroup")
          THEN el.props.middleware \o GroupChildMiddlewares(el.props.children)
          ELSE <<>>)
         \o EnclosingMiddlewares(el.props.children[Head(pos)], Tail(pos))

\* The Route nodes of a tree, by position.
RoutePositions(el) == { pos \in Positions(el) : IsType(NodeAt(el, pos), "Route") }

-----------------------------------------------------------------------------
(* The trees the compiler is exercised on. *)

Prefixes1 == {"", "/api"}
Prefixes2 == {"", "/v1"}
RoutePaths == {"", "/users/:id", "*"}
RouteMethods == {"", "GET", "post", "PUT", "patch", "DELETE", "OPTIONS", "HEAD", "ALL"}
BodySchemas == {"", "zBody"}
RouteHandlers == {"", "userById"}
Shapes == {"app", "jsx", "array", "container", "appInGroup"}

HealthRoute == Route("welcome", "/health", "GET", <<>>, "", "")

TreeOf(shape, p1, p2, path, method, body, handler) ==
    LET r1 == Route(handler, path, method, <<"slowRoute">>, "", body)
        g2 == RouteGroup(<<r1>>, p2, <<>>)
        g1 == RouteGroup(<<g2, Middleware(<<"auth">>), HealthRoute>>, p1, <<>>)
    IN CASE shape = "app" -> App(<<g1>>, 0, FALSE, <<"logging">>)
         [] shape = "jsx" ->
              Jsx(App(<<Jsx(RouteGroup(
                          <<Jsx(RouteGroup(<<Jsx(r1)>>, p2, <<>>)),
                            Jsx(Middleware(<<"auth">>)), Jsx(HealthRoute)>>,
                          p1, <<>>))>>,
                      0, FALSE, <<"logging">>))
         [] shape = "array" -> ArrayOf(<<NullElement, g1>>)
         [] shape = "container" ->
              App(<<Container(<<g1>>)>>, 3000, TRUE, <<>>)
         [] shape = "appInGroup" ->
              RouteGroup(<<App(<<g2>>, 0, TRUE, <<"logging">>), HealthRoute>>,
                         p1, <<"auth">>)

CompileTrees ==
    { TreeOf(sh, p1, p2, path, m, b, h) :
        sh \in Shapes, p1 \in Prefixes1, p2 \in Prefixes2, path \in RoutePaths,
        m \in RouteMethods, b \in BodySchemas, h \in RouteHandlers }


-----------------------------------------------------------------------------
(* The ambient context store.  A context value records where it came from: *)
(* src "seed" is a field of request req's request object, src "mw" a value *)
(* written by code running for request req, src "global" a value written   *)
(* by code running outside any request.                                    *)

Undefined == [src |-> "undefined", req |-> 0, val |-> ""]

EmptyMap == [k \in {} |-> Undefined]

MapGet(m, k) == IF k \in DOMAIN m THEN m[k] ELSE Undefined

MapSet(m, k, v) == [x \in (DOMAIN m) \cup {k} |-> IF x = k THEN v ELSE m[x]]

\* routeContext = null
NullContext ==
    [active |-> FALSE, req |-> 0, params |-> Undefined, query |-> Undefined,
     body |-> Undefined, middlewareContext |-> EmptyMap]

SeedValue(r, field) == [src |-> "seed", req |-> r, val |-> field]

\* useRoute(): throws when routeContext is null, else returns it.
useRoute(rc) == [threw |-> ~rc.active, ctx |-> rc]

\* as if every write went to the process-wide map
useSetContextAlwaysGlobal(rc, gc, key, value) ==
    [rc |-> rc, gc |-> MapSet(gc, key, value)]

\* useSetContext(key, value): the new routeContext and globalContext.
useSetContext(rc, gc, key, value) ==
    IF rc.active
    THEN LET rc1 == [rc EXCEPT !.middlewareContext = MapSet(@, key, value)]
         IN [rc |-> CASE key = "body" -> [rc1 EXCEPT !.body = value]
                      [] key = "query" -> [rc1 EXCEPT !.query = value]
                      [] key = "params" -> [rc1 EXCEPT !.params = value]
                      [] OTHER -> rc1,
             gc |-> gc]
    ELSE [rc |-> rc, gc |-> MapSet(gc, key, value)]

\* useContext(key): the key-based read (getFromContext is the same lookup).
useContext(rc, gc, key) ==
    IF rc.active
    THEN LET routeValue == MapGet(rc.middlewareContext, key)
         IN IF routeValue # Undefined THEN routeValue ELSE MapGet(gc, key)
    ELSE MapGet(gc, key)

SnapshotKeys == {"body", "query", "params", "req", "res", "path", "method", "headers"}

\* useContext(): the convenience object of the seeded fields.
useContextAll(rc, gc) == [k \in SnapshotKeys |-> useContext(rc, gc, k)]

-----------------------------------------------------------------------------
(* Values a handler or middleware returns, and the response they become.   *)

Absent == "<undefined>"   \* an undefined property of a Response element

NoResponseProps ==
    [status |-> 0, json |-> Absent, text |-> Absent, html |-> Absent,
     headers |-> {}, redirect |-> "",
     statusIsNumber |-> TRUE]   \* typeof status === "number"; FALSE: the
                                \* status was given as a string of digits

\* <Response .../>: the element the Response builder returns.
Response(props) == [kind |-> "response", val |-> "", props |-> props]
\* undefined, null, false, 0, ""
Falsy(v) == [kind |-> "falsy", val |-> v, props |-> NoResponseProps]
\* a truthy string or number
Primitive(v) == [kind |-> "primitive", val |-> v, props |-> NoResponseProps]
\* an object that is not a Response element
PlainObject(v) == [kind |-> "object", val |-> v, props |-> NoResponseProps]

NoBody == [error |-> "", message |-> "", path |-> "", method |-> "", data |-> ""]

\* the express response object before anything was written
FreshRes ==
    [headersSent |-> FALSE, status |-> 200, headers |-> {}, type |-> "",
     body |-> NoBody, location |-> ""]

ErrorBody(error) == [NoBody EXCEPT !.error = error]

\* res.status(code).json(body)
SendJson(res, code, body) ==
    [res EXCEPT !.headersSent = TRUE, !.status = code,
                !.type = "application/json", !.body = body]

\* as if res.status(status) were never called
WithStatusIgnored(res, status) == res

\* res.status(code) when code is truthy
WithStatus(res, status) == IF status # 0 THEN [res EXCEPT !.status = status] ELSE res

\* res.setHeader(h, v) for every entry of headers
SetHeaders(res, headers) ==
    [res EXCEPT !.headers =
        { h \in @ : \A n \in headers : n[1] # h[1] } \cup headers]

\* as if a Response element's json were looked at before its text and html
sendResponseElementJsonFirst(res, p) ==
    LET r1 == SetHeaders(res, p.headers)
    IN IF Truthy(p.redirect)
       THEN [r1 EXCEPT !.headersSent = TRUE,
                       !.status = IF p.status # 0 /\ p.statusIsNumber
                                  THEN p.status ELSE 302,
                       !.location = p.redirect]
       ELSE IF p.json # Absent
       THEN [WithStatus(r1, p.status) EXCEPT
                !.headersSent = TRUE, !.type = "application/json",
                !.body = [NoBody EXCEPT !.data = p.json]]
       ELSE IF p.text # Absent
       THEN [WithStatus(r1, p.status) EXCEPT
                !.headersSent = TRUE, !.type = "text/plain",
                !.body = [NoBody EXCEPT !.data = p.text]]
       ELSE IF p.html # Absent
       THEN [WithStatus(r1, p.status) EXCEPT
                !.headersSent = TRUE, !.type = "text/html",
                !.body = [NoBody EXCEPT !.data = p.html]]
       ELSE IF p.status # 0
       THEN [r1 EXCEPT !.headersSent = TRUE, !.status = p.status]
       ELSE [r1 EXCEPT !.headersSent = TRUE, !.status = 200]

\* The isResponseElement branch of sendResponseFromOutput, p = output.props.
sendResponseElement(res, p) ==
    LET r1 == SetHeaders(res, p.headers)
    IN IF Truthy(p.redirect)
       THEN [r1 EXCEPT !.headersSent = TRUE,
                       !.status = IF p.status # 0 /\ p.statusIsNumber
                                  THEN p.status ELSE 302,
                       !.location = p.redirect]
       ELSE IF p.text # Absent
       THEN [WithStatus(r1, p.status) EXCEPT
                !.headersSent = TRUE, !.type = "text/plain",
                !.body = [NoBody EXCEPT !.data = p.text]]
       ELSE IF p.html # Absent
       THEN [WithStatus(r1, p.status) EXCEPT
                !.headersSent = TRUE, !.type = "text/html",
                !.body = [NoBody EXCEPT !.data = p.html]]
       ELSE IF p.json # Absent
       THEN [WithStatus(r1, p.status) EXCEPT
                !.headersSent = TRUE, !.type = "application/json",
                !.body = [NoBody EXCEPT !.data = p.json]]
       ELSE IF p.status # 0
       THEN [r1 EXCEPT !.headersSent = TRUE, !.status = p.status]
       ELSE [r1 EXCEPT !.headersSent = TRUE, !.status = 200]

\* as if the engine answered 500 without looking at res.headersSent
sendResponseFromOutputNoSentCheck(res, output) ==
    IF output.kind = "falsy"
    THEN SendJson(res, 500, ErrorBody("No response generated"))
    ELSE IF output.kind = "response"
    THEN sendResponseElement(res, output.props)
    ELSE IF output.kind = "object"
    THEN SendJson(res, 500, ErrorBody("Invalid response format"))
    ELSE [res EXCEPT !.headersSent = TRUE, !.type = "text/html",
                     !.body = [NoBody EXCEPT !.data = output.val]]

\* as if a plain object were serialised and sent like a primitive
sendResponseFromOutputObjectAsText(res, output) ==
    IF output.kind = "falsy"
    THEN IF ~res.headersSent
         THEN SendJson(res, 500, ErrorBody("No response generated"))
         ELSE res
    ELSE IF output.kind = "response"
    THEN sendResponseElement(res, output.props)
    ELSE [res EXCEPT !.headersSent = TRUE, !.type = "text/html",
                     !.body = [NoBody EXCEPT !.data = output.val]]

sendResponseFromOutput(res, output) ==
    IF output.kind = "falsy"
    THEN IF ~res.headersSent
         THEN SendJson(res, 500, ErrorBody("No response generated"))
         ELSE res
    ELSE IF output.kind = "response"
    THEN sendResponseElement(res, output.props)
    ELSE IF output.kind = "object"
    THEN IF ~res.headersSent
         THEN SendJson(res, 500, ErrorBody("Invalid response format"))
         ELSE res
    ELSE [res EXCEPT !.headersSent = TRUE, !.type = "text/html",
                     !.body = [NoBody EXCEPT !.data = output.val]]

-----------------------------------------------------------------------------
(* User code: middleware and handlers.  ops are run in order; "await" is   *)
(* an await of a genuinely asynchronous computation; fin is how the code   *)
(* ends: "next" (return next()), "return" (return out) or "throw".         *)

Await == [op |-> "await", key |-> ""]
Set(key) == [op |-> "set", key |-> key]
Get(key) == [op |-> "get", key |-> key]
UseRoute == [op |-> "useRoute", key |-> ""]
\* const { body, query, params } = useRoute()
UseRouteFields == [op |-> "useRoute", key |-> "fields"]
\* const { body, query, params } = useContext()
GetAll == [op |-> "getAll", key |-> ""]
\* validationMiddleware's step for one part of the request
Validate(key) == [op |-> "validate", key |-> key]
\* a middleware answers on the res it was handed: res.status(202).json(...)
Send == [op |-> "send", key |-> ""]

Json(status, json) == Response([NoResponseProps EXCEPT !.status = status, !.json = json])

Code(ops, fin, out) == [ops |-> ops, fin |-> fin, out |-> out]

Behaviour(name, req) ==
    CASE name = "logging" -> Code(<<Set("requestTimestamp")>>, "next", Falsy(""))
      [] name = "slowRoute" -> Code(<<Set("processStartTime")>>, "next", Falsy(""))
      [] name = "auth" ->
           IF req.token = ""
           THEN Code(<<>>, "return", Json(401, "Unauthorized"))
           ELSE IF req.token # "valid-token"
           THEN Code(<<>>, "return", Json(401, "Invalid token"))
           ELSE Code(<<Set("user")>>, "next", Falsy(""))
      \* an authentication middleware that looks the token up asynchronously
      [] name = "asyncAuth" -> Code(<<Await, Set("user")>>, "next", Falsy(""))
      [] name = "welcome" -> Code(<<>>, "return", Json(0, "welcome"))
      [] name = "me" ->
           Code(<<Get("user"), Get("requestTimestamp")>>, "return", Json(0, "me"))
      \* a handler that awaits a computation before reading the context
      [] name = "asyncMe" ->
           Code(<<Await, Get("user"), Get("config"), UseRoute>>, "return",
                Json(0, "me"))
      [] name = "userById" -> Code(<<UseRoute, Get("requestTimestamp")>>, "return", Json(0, "user"))
      [] name = "hello" ->
           Code(<<Get("body"), Get("query"), Await>>, "return",
                Response([NoResponseProps EXCEPT
                            !.status = 201, !.json = "hello",
                            !.headers = {<<"X-Custom-Header", "Hello, World!">>}]))
      [] name = "notFound" -> Code(<<>>, "return", Json(404, "custom not found"))
      [] name = "validation" ->
           Code(<<Validate("body"), Validate("params"), Validate("query")>>,
                "validated", Json(400, "Validation failed"))
      \* a handler that awaits, then reads what the validation left
      [] name = "createItem" ->
           Code(<<Await, Get("body"), Get("query"), GetAll, UseRouteFields>>,
                "return", Json(201, "created"))
      \* code that throws: an Error, a value thrown after an await, an object
      [] name = "boom" -> Code(<<>>, "throw", Primitive("Error: boom"))
      [] name = "asyncBoom" -> Code(<<Await>>, "throw", Primitive("late"))
      [] name = "rejecting" -> Code(<<>>, "throw", PlainObject("secret"))
      \* a middleware that answers on res itself and lets the chain go on
      [] name = "respondEarly" -> Code(<<Send>>, "next", Falsy(""))
      \* handlers whose final value is falsy, a plain object, a string
      [] name = "returnsNull" -> Code(<<>>, "return", Falsy("null"))
      [] name = "returnsFalse" -> Code(<<>>, "return", Falsy("false"))
      [] name = "returnsZero" -> Code(<<Await>>, "return", Falsy("0"))
      [] name = "returnsEmpty" -> Code(<<>>, "return", Falsy(""))
      [] name = "returnsObject" -> Code(<<>>, "return", PlainObject("row"))
      [] name = "returnsText" -> Code(<<>>, "return", Primitive("<p>hi</p>"))
      [] OTHER -> Code(<<>>, "return", Falsy("undefined"))


-----------------------------------------------------------------------------
(* The transport's route matching. *)

\* s split at "/", empty pieces dropped: "/api/users/:id" is
\* <<"api", "users", ":id">>.
RECURSIVE SplitFrom(_, _, _, _)
SplitFrom(s, i, cur, acc) ==
    LET flush == IF cur = "" THEN acc ELSE Append(acc, cur)
    IN IF i > Len(s) THEN flush
       ELSE IF SubSeq(s, i, i) = "/" THEN SplitFrom(s, i + 1, "", flush)
       ELSE SplitFrom(s, i + 1, cur \o SubSeq(s, i, i), acc)

Segments(s) == SplitFrom(s, 1, "", <<>>)

IsParamSegment(seg) == Len(seg) > 1 /\ SubSeq(seg, 1, 1) = ":"

\* pattern (a registered route path) matches the request path
PathMatches(pattern, path) ==
    LET ps == Segments(pattern)
        xs == Segments(path)
    IN /\ Len(ps) = Len(xs)
       /\ \A i \in 1..Len(ps) : IsParamSegment(ps[i]) \/ ps[i] = xs[i]

\* req.params: the <<name, value>> pairs of the pattern's ":name" segments
ParamsOf(pattern, path) ==
    LET ps == Segments(pattern)
        xs == Segments(path)
    IN { <<SubSeq(ps[i], 2, Len(ps[i])), xs[i]>> :
           i \in { j \in 1..Len(ps) : IsParamSegment(ps[j]) } }

\* app.get / app.post / ... / app.all: the methods serve can register
registrar == {"get", "post", "put", "patch", "delete", "options", "head", "all"}

\* as if the request's method were compared without lower-casing it
RouteAcceptsCaseSensitive(route, method, path) ==
    /\ route.method \in registrar
    /\ route.method = "all" \/ route.method = method
    /\ PathMatches(route.path, path)

\* a handler registered with app[method](path, ...) takes the request
RouteAccepts(route, method, path) ==
    /\ route.method \in registrar
    /\ route.method = "all" \/ route.method = toLowerCase(method)
    /\ PathMatches(route.path, path)

-----------------------------------------------------------------------------
(* What serve derives from the route table. *)

\* as if every path ending in "*" made a wildcard route
wildcardRoutesBySuffix ==
    SelectSeq(routes, LAMBDA route :
        Len(route.path) > 0 /\ SubSeq(route.path, Len(route.path), Len(route.path)) = "*")

regularRoutes == SelectSeq(routes, LAMBDA route : route.path # "*")
wildcardRoutes == SelectSeq(routes, LAMBDA route : route.path = "*")

\* methodsByPath[path]: the upper-cased methods of the regular routes whose
\* path is exactly this string, in table order, each once; <<>> when the
\* path is no key of the index.
RECURSIVE MethodsOf(_, _, _)
MethodsOf(rs, path, acc) ==
    IF rs = <<>> THEN acc
    ELSE LET route == Head(rs)
             m == toUpperCase(route.method)
         IN MethodsOf(Tail(rs), path,
                IF route.path = path /\ \A i \in 1..Len(acc) : acc[i] # m
                THEN Append(acc, m) ELSE acc)

methodsByPath(path) == MethodsOf(regularRoutes, path, <<>>)

\* Array.prototype.join(", ")
RECURSIVE Join(_)
Join(xs) ==
    IF xs = <<>> THEN ""
    ELSE IF Len(xs) = 1 THEN xs[1]
    ELSE xs[1] \o ", " \o Join(Tail(xs))

Includes(xs, x) == \E i \in 1..Len(xs) : xs[i] = x

\* index (0 when none) of the first handler, in registration order, that
\* takes the request; takes[i] tells whether the i-th one would
FirstIndex(takes) ==
    IF \E i \in 1..Len(takes) : takes[i]
    THEN CHOOSE i \in 1..Len(takes) : takes[i] /\ \A j \in 1..(i - 1) : ~takes[j]
    ELSE 0

-----------------------------------------------------------------------------
(* A request: the transport's request object, the state of the closure     *)
(* that handles it, observations of what its code saw, and its response.   *)

NewRequest ==
    [st |-> "new",            \* "new" | "suspended" | "done"
     method |-> "", path |-> "", originalUrl |-> "", token |-> "",
     invalid |-> {},          \* the parts of it a schema would reject
     params |-> {},
     via |-> "",              \* which registered handler took the request
     route |-> 0,             \* its index in regularRoutes / wildcardRoutes
     handler |-> "", middlewares |-> <<>>,   \* captured by the closure
     middlewareIndex |-> 0,   \* the closure's cursor
     unit |-> 0,              \* the code running: a middleware index, or
                              \* Len(middlewares) + 1 for the handler
     pos |-> 1,               \* next operation of that code
     log |-> <<>>,            \* the code that started running, in order
     reads |-> <<>>,          \* what its context reads returned
     wrote |-> {},            \* the keys its code wrote
     errors |-> {},           \* validationMiddleware's errors
     scopeAtOpen |-> NullContext,  \* the scope as seeded for it
     threw |-> FALSE,
     thrown |-> "",           \* the value the catch clause received
     sentByCode |-> FALSE,    \* user code answered on res itself
     output |-> Falsy("none"),
     res |-> FreshRes]

RequestIds == 1..MaxRequests

\* The state one run works on: the two module-level stores and the request.
Machine(rc, gc, q, r) == [rc |-> rc, gc |-> gc, q |-> q, r |-> r]

\* as if the catch clause put the thrown value into the body
CaughtLeaksError(m) ==
    [m EXCEPT !.q.res = IF ~m.q.res.headersSent
                        THEN SendJson(m.q.res, 500, ErrorBody(m.q.thrown))
                        ELSE m.q.res,
              !.q.threw = TRUE,
              !.q.st = "done",
              !.rc = NullContext]

\* as if the scope were cleared after the try block, not in a finally
CaughtKeepsScope(m) ==
    [m EXCEPT !.q.res = IF ~m.q.res.headersSent
                        THEN SendJson(m.q.res, 500, ErrorBody("Internal server error"))
                        ELSE m.q.res,
              !.q.threw = TRUE,
              !.q.st = "done"]

\* catch: log, answer 500 unless a response was sent; finally: clear.
Caught(m) ==
    [m EXCEPT !.q.res = IF ~m.q.res.headersSent
                        THEN SendJson(m.q.res, 500, ErrorBody("Internal server error"))
                        ELSE m.q.res,
              !.q.threw = TRUE,
              !.q.st = "done",
              !.rc = NullContext]

\* sendResponseFromOutput(res, output); finally: routeContext = null.
Finish(m, output) ==
    [m EXCEPT !.q.res = sendResponseFromOutput(m.q.res, output),
              !.q.output = output,
              !.q.st = "done",
              !.rc = NullContext]

UnitName(q) ==
    IF q.unit <= Len(q.middlewares) THEN q.middlewares[q.unit] ELSE q.handler

\* One context operation of user code.
ApplyOp(m, op) ==
    CASE op.op = "set" ->
           LET w == useSetContext(m.rc, m.gc, op.key,
                                  [src |-> "mw", req |-> m.r, val |-> op.key])
           IN [m EXCEPT !.rc = w.rc, !.gc = w.gc, !.q.wrote = @ \cup {op.key}]
      [] op.op = "validate" ->
           LET schema == useContext(m.rc, m.gc, "_" \o op.key \o "Schema")
               w == useSetContext(m.rc, m.gc, op.key,
                                  [src |-> "mw", req |-> m.r, val |-> op.key])
           IN IF schema = Undefined THEN m
              ELSE IF op.key \in m.q.invalid
              THEN [m EXCEPT !.q.errors = @ \cup {op.key}]
              ELSE [m EXCEPT !.rc = w.rc, !.gc = w.gc, !.q.wrote = @ \cup {op.key}]
      [] op.op = "getAll" ->
           LET all == useContextAll(m.rc, m.gc)
           IN [m EXCEPT !.q.reads = @ \o
                 <<[key |-> "snapshot.body", val |-> all["body"]],
                   [key |-> "snapshot.query", val |-> all["query"]],
                   [key |-> "snapshot.params", val |-> all["params"]]>>]
      [] op.op = "useRoute" /\ op.key = "fields" ->
           LET ctx == useRoute(m.rc).ctx
           IN [m EXCEPT !.q.reads = @ \o
                 <<[key |-> "useRoute.body", val |-> ctx.body],
                   [key |-> "useRoute.query", val |-> ctx.query],
                   [key |-> "useRoute.params", val |-> ctx.params]>>]
      [] op.op = "get" ->
           [m EXCEPT !.q.reads =
               Append(@, [key |-> op.key, val |-> useContext(m.rc, m.gc, op.key)])]
      [] op.op = "useRoute" /\ op.key = "" ->
           [m EXCEPT !.q.reads =
               Append(@, [key |-> "useRoute",
                          val |-> [src |-> "scope", req |-> useRoute(m.rc).ctx.req,
                                   val |-> ""]])]
      [] op.op = "send" ->
           [m EXCEPT !.q.res = SendJson(m.q.res, 202, [NoBody EXCEPT !.data = "accepted"]),
                     !.q.sentByCode = TRUE]
      [] OTHER -> m

RECURSIVE Continue(_)
RECURSIVE executeNextMiddleware(_)

\* Run the current code from q.pos up to its next await or to its end.
Continue(m) ==
    LET q == m.q
        b == Behaviour(UnitName(q), q)
    IN IF q.pos <= Len(b.ops)
       THEN LET op == b.ops[q.pos]
                m1 == [m EXCEPT !.q.pos = q.pos + 1]
            IN IF op.op = "await" THEN [m1 EXCEPT !.q.st = "suspended"]
               ELSE IF op.op = "useRoute" /\ useRoute(m.rc).threw
               THEN Caught([m1 EXCEPT !.q.thrown = "useRoute must be used inside a Route"])
               ELSE Continue(ApplyOp(m1, op))
       ELSE CASE b.fin = "next" /\ q.unit <= Len(q.middlewares) ->
                   executeNextMiddleware(m)
              [] b.fin = "validated" ->
                   IF q.errors # {} THEN Finish(m, b.out)
                   ELSE executeNextMiddleware(m)
              [] b.fin = "throw" -> Caught([m EXCEPT !.q.thrown = b.out.val])
              [] OTHER -> Finish(m, b.out)

\* as if the cursor were advanced before it is read: middlewares[++middlewareIndex]
executeNextMiddlewarePreIncrement(m) ==
    LET q == m.q
    IN IF q.middlewareIndex >= Len(q.middlewares)
       THEN Continue([m EXCEPT !.q.unit = Len(q.middlewares) + 1, !.q.pos = 1,
                               !.q.log = Append(@, q.handler)])
       ELSE IF q.middlewareIndex + 2 > Len(q.middlewares)
       THEN Finish([m EXCEPT !.q.middlewareIndex = q.middlewareIndex + 1],
                   Falsy("undefined"))
       ELSE Continue([m EXCEPT !.q.unit = q.middlewareIndex + 2,
                               !.q.middlewareIndex = q.middlewareIndex + 1,
                               !.q.pos = 1,
                               !.q.log = Append(@, q.middlewares[q.middlewareIndex + 2])])

\* as if a middleware's returned value were dropped and the chain went on
executeNextMiddlewareIgnoresReturn(m) ==
    LET q == m.q
    IN IF q.middlewareIndex >= Len(q.middlewares)
       THEN Continue([m EXCEPT !.q.unit = Len(q.middlewares) + 1, !.q.pos = 1,
                               !.q.log = Append(@, q.handler)])
       ELSE LET cur == q.middlewares[q.middlewareIndex + 1]
                b == Behaviour(cur, q)
            IN IF b.fin = "return"
               THEN executeNextMiddleware(
                        [m EXCEPT !.q.middlewareIndex = q.middlewareIndex + 1,
                                  !.q.log = Append(@, cur)])
               ELSE Continue([m EXCEPT !.q.unit = q.middlewareIndex + 1,
                                       !.q.middlewareIndex = q.middlewareIndex + 1,
                                       !.q.pos = 1,
                                       !.q.log = Append(@, cur)])

\* as if middlewareIndex were declared outside wrapped, one cursor for all
\* requests: a request starts where the requests before it left the cursor
executeNextMiddlewareSharedCursor(m) ==
    LET q == m.q
        index == q.middlewareIndex + (m.r - 1)
    IN IF index >= Len(q.middlewares)
       THEN Continue([m EXCEPT !.q.unit = Len(q.middlewares) + 1, !.q.pos = 1,
                               !.q.log = Append(@, q.handler)])
       ELSE Continue([m EXCEPT !.q.unit = index + 1,
                               !.q.middlewareIndex = q.middlewareIndex + 1,
                               !.q.pos = 1,
                               !.q.log = Append(@, q.middlewares[index + 1])])

executeNextMiddleware(m) ==
    LET q == m.q
    IN IF q.middlewareIndex >= Len(q.middlewares)
       THEN Continue([m EXCEPT !.q.unit = Len(q.middlewares) + 1, !.q.pos = 1,
                               !.q.log = Append(@, q.handler)])
       ELSE Continue([m EXCEPT !.q.unit = q.middlewareIndex + 1,
                               !.q.middlewareIndex = q.middlewareIndex + 1,
                               !.q.pos = 1,
                               !.q.log = Append(@, q.middlewares[q.middlewareIndex + 1])])


-----------------------------------------------------------------------------
(* The handlers serve registers with the transport. *)

\* routeContext = { req, res, params, query, body, middlewareContext } and
\* the seeding of middlewareContext; the schemas are stored when given.
OpenScope(r, bodySchema, querySchema) ==
    LET seeded == [k \in SnapshotKeys |-> SeedValue(r, k)]
        s1 == IF Truthy(bodySchema)
              THEN MapSet(seeded, "_bodySchema",
                          [src |-> "schema", req |-> 0, val |-> bodySchema])
              ELSE seeded
        s2 == IF Truthy(querySchema)
              THEN MapSet(s1, "_querySchema",
                          [src |-> "schema", req |-> 0, val |-> querySchema])
              ELSE s1
    IN [active |-> TRUE, req |-> r,
        params |-> SeedValue(r, "params"),
        query |-> SeedValue(r, "query"),
        body |-> SeedValue(r, "body"),
        middlewareContext |-> s2]

\* createExpressHandler(...)'s wrapped(req, res), up to its first await.
createExpressHandler(route, gc, q, r) ==
    LET rc == OpenScope(r, route.bodySchema, route.querySchema)
    IN executeNextMiddleware(
           Machine(rc, gc,
                   [q EXCEPT !.handler = route.handler,
                             !.middlewares = route.middlewares,
                             !.middlewareIndex = 0,
                             !.scopeAtOpen = rc],
                   r))

\* methodSpecificWildcardHandler(req, res, next) when it takes the request.
methodSpecificWildcardHandler(route, gc, q, r) ==
    LET rc == OpenScope(r, "", "")
    IN executeNextMiddleware(
           Machine(rc, gc,
                   [q EXCEPT !.handler = route.handler,
                             !.middlewares = route.middlewares,
                             !.middlewareIndex = 0,
                             !.scopeAtOpen = rc],
                   r))

\* as if a wildcard handler took every request, whatever its method
WildcardAcceptsAny(route, method) == TRUE

\* method === "all" || req.method.toLowerCase() === method
WildcardAccepts(route, method) ==
    route.method = "all" \/ toLowerCase(method) = route.method

\* The 405 pass: app.use((req, res, next) => ...).
MethodNotAllowedApplies(path, method) ==
    methodsByPath(path) # <<>> /\ ~Includes(methodsByPath(path), method)

MethodNotAllowed(q) ==
    [q EXCEPT !.via = "405", !.st = "done",
              !.res = SendJson(
                  [q.res EXCEPT !.headers =
                      @ \cup {<<"Allow", Join(methodsByPath(q.path))>>}],
                  405,
                  [error |-> "Method Not Allowed",
                   message |-> "Method " \o q.method
                               \o " is not allowed for path " \o q.path,
                   path |-> q.path, method |-> q.method, data |-> ""])]

\* as if the default 404 handler named req.path
NotFoundUsesPath(q) ==
    [q EXCEPT !.via = "404", !.st = "done",
              !.res = SendJson(q.res, 404,
                  [error |-> "Not Found",
                   message |-> "Route " \o q.method \o " " \o q.path
                               \o " not found",
                   path |-> q.path, method |-> q.method, data |-> ""])]

\* The default 404 handler.
NotFound(q) ==
    [q EXCEPT !.via = "404", !.st = "done",
              !.res = SendJson(q.res, 404,
                  [error |-> "Not Found",
                   message |-> "Route " \o q.method \o " " \o q.originalUrl
                               \o " not found",
                   path |-> q.originalUrl, method |-> q.method, data |-> ""])]

\* The transport's stack, in registration order: the regular routes, the
\* 405 pass, then the wildcard handlers or the default 404 handler.  The
\* result is the machine after the first run of whichever took the request.
Dispatch(rc, gc, q, r) ==
    LET idx == FirstIndex([i \in 1..Len(regularRoutes) |->
                              RouteAccepts(regularRoutes[i], q.method, q.path)])
        widx == FirstIndex([i \in 1..Len(wildcardRoutes) |->
                               WildcardAccepts(wildcardRoutes[i], q.method)])
    IN IF idx # 0
       THEN createExpressHandler(
                regularRoutes[idx], gc,
                [q EXCEPT !.via = "route", !.route = idx,
                          !.params = ParamsOf(regularRoutes[idx].path, q.path)],
                r)
       ELSE IF MethodNotAllowedApplies(q.path, q.method)
       THEN Machine(rc, gc, MethodNotAllowed(q), r)
       ELSE IF Len(wildcardRoutes) > 0
       THEN IF widx # 0
            THEN methodSpecificWildcardHandler(
                     wildcardRoutes[widx], gc,
                     [q EXCEPT !.via = "wildcard", !.route = widx], r)
            \* every wildcard handler called next(): the transport's own
            \* final handler answers, not the engine
            ELSE Machine(rc, gc, [q EXCEPT !.via = "transport", !.st = "done"], r)
       ELSE Machine(rc, gc, NotFound(q), r)

-----------------------------------------------------------------------------
(* The trees and requests the dispatch engine is exercised on. *)

ApiTree ==
    App(<<RouteGroup(
            <<Route("userById", "/users/:id", "GET", <<"slowRoute">>, "", ""),
              Middleware(<<"asyncAuth">>),
              Route("welcome", "/users/me", "GET", <<>>, "", ""),
              Route("hello", "/users", "POST", <<>>, "zQuery", "zBody"),
              Route("asyncMe", "/me", "get", <<>>, "", "")>>,
            "/api", <<>>)>>,
        0, FALSE, <<"logging">>)

ProtectedTree ==
    Jsx(App(<<Jsx(RouteGroup(
                 <<Jsx(Middleware(<<"auth">>)),
                   Jsx(Route("me", "/me", "GET", <<"slowRoute">>, "", ""))>>,
                 "/api/protected", <<>>)),
              Jsx(Route("notFound", "*", "ALL", <<>>, "", ""))>>,
            3000, TRUE, <<"logging">>))

BareTree ==
    ArrayOf(<<Route("asyncMe", "/me", "GET", <<"logging">>, "", ""),
              Route("hello", "/me", "POST", <<>>, "", ""),
              Route("notFound", "*", "GET", <<>>, "", "")>>)

DispatchTrees == {ApiTree, ProtectedTree, BareTree}

Input(method, path, search, token) ==
    [method |-> method, path |-> path, search |-> search, token |-> token,
     invalid |-> {}]

\* a request of which the schemas reject some parts
InvalidInput(method, path, search, invalid) ==
    [Input(method, path, search, "") EXCEPT !.invalid = invalid]

RequestInputs ==
    { Input("GET", "/api/users/42", "", ""),
      Input("GET", "/api/users/me", "", ""),
      Input("DELETE", "/api/users/42", "", ""),
      Input("DELETE", "/api/users", "", ""),
      Input("POST", "/api/users", "?age=3", ""),
      Input("GET", "/api/me", "", ""),
      Input("GET", "/nope", "", ""),
      Input("GET", "/nope", "?x=1", ""),
      Input("POST", "/nope", "", ""),
      Input("GET", "/api/protected/me", "", ""),
      Input("GET", "/api/protected/me", "", "valid-token"),
      Input("GET", "/me", "", ""),
      Input("DELETE", "/me", "", "") }

\* A tree whose code fails in every way the engine provides for.
FaultTree ==
    App(<<Route("boom", "/boom", "GET", <<>>, "", ""),
          Route("asyncBoom", "/late", "GET", <<"logging">>, "", ""),
          Route("welcome", "/guarded", "GET", <<"rejecting">>, "", ""),
          Route("returnsUndefined", "/undefined", "GET", <<>>, "", ""),
          Route("returnsNull", "/null", "GET", <<>>, "", ""),
          Route("returnsFalse", "/false", "GET", <<>>, "", ""),
          Route("returnsZero", "/zero", "GET", <<>>, "", ""),
          Route("returnsEmpty", "/empty", "GET", <<>>, "", ""),
          Route("returnsObject", "/object", "GET", <<>>, "", ""),
          Route("returnsText", "/text", "GET", <<>>, "", ""),
          Route("returnsNull", "/early", "GET", <<"respondEarly">>, "", ""),
          Route("boom", "/early", "POST", <<"respondEarly">>, "", ""),
          Route("returnsObject", "/early", "DELETE", <<"respondEarly">>, "", ""),
          Route("boom", "*", "POST", <<>>, "", "")>>,
        0, FALSE, <<>>)

FaultInputs ==
    { Input("GET", p, "", "") :
        p \in {"/boom", "/late", "/guarded", "/undefined", "/null", "/false",
               "/zero", "/empty", "/object", "/text", "/early", "/nope"} }
    \cup { Input("POST", "/early", "", ""), Input("POST", "/nope", "", ""),
           Input("DELETE", "/early", "", ""),
           Input("POST", "/boom", "", ""), Input("DELETE", "/nope", "", "") }

-----------------------------------------------------------------------------
(* Actions *)

\* What the last direct call of useSetContext or useContext was and gave.
Probe(op, key, val) == [op |-> op, key |-> key, val |-> val]

NoProbe == Probe("", "", Undefined)

\* the module-level state as a call of serve finds it
Found == [tree |-> tree, phase |-> phase, routes |-> routes, appConfig |-> appConfig]

Init ==
    /\ tree = NullElement
    /\ phase = "init"
    /\ routes = <<>>
    /\ appConfig = EmptyConfig
    /\ routeContext = NullContext
    /\ globalContext = EmptyMap
    /\ reqs = [r \in RequestIds |-> NewRequest]
    /\ probe = NoProbe
    /\ previous = Found

\* serve(element): compile the tree; the server runs unless compiling threw.
Serve(element) ==
    /\ phase = "init"
    /\ LET c == serveCompile(element, routes, appConfig)
       IN /\ routes' = c.routes
          /\ appConfig' = c.appConfig
          /\ phase' = IF c.err # "" THEN "failed" ELSE "serving"
    /\ tree' = element
    /\ previous' = Found
    /\ UNCHANGED <<routeContext, globalContext, reqs, probe>>

\* serve(element) called again in the same process, whatever the earlier
\* call did: the module-level table and configuration are the same objects.
ServeAgain(element) ==
    /\ phase # "init"
    /\ LET c == serveCompile(element, routes, appConfig)
       IN /\ routes' = c.routes
          /\ appConfig' = c.appConfig
          /\ phase' = IF c.err # "" THEN "failed" ELSE "serving"
    /\ tree' = element
    /\ previous' = Found
    /\ UNCHANGED <<routeContext, globalContext, reqs, probe>>

\* A request arrives and runs up to its first await.
Arrive(r, in) ==
    /\ phase = "serving"
    /\ reqs[r].st = "new"
    /\ \A r0 \in RequestIds : r0 < r => reqs[r0].st # "new"
    /\ LET q == [NewRequest EXCEPT !.method = in.method, !.path = in.path,
                                   !.originalUrl = in.path \o in.search,
                                   !.token = in.token,
                                   !.invalid = in.invalid]
           m == Dispatch(routeContext, globalContext, q, r)
       IN /\ routeContext' = m.rc
          /\ globalContext' = m.gc
          /\ reqs' = [reqs EXCEPT ![r] = m.q]
    /\ UNCHANGED <<tree, phase, routes, appConfig, probe, previous>>

\* The computation a request awaited completes: it runs on to its next
\* await or to its end.
Resume(r) ==
    /\ reqs[r].st = "suspended"
    /\ LET m == Continue(Machine(routeContext, globalContext, reqs[r], r))
       IN /\ routeContext' = m.rc
          /\ globalContext' = m.gc
          /\ reqs' = [reqs EXCEPT ![r] = m.q]
    /\ UNCHANGED <<tree, phase, routes, appConfig, probe, previous>>

\* Code running outside any request (start-up code, a timer) calls
\* useSetContext("config", ...).
OutsideWrite ==
    /\ LET w == useSetContext(routeContext, globalContext, "config",
                              [src |-> "global", req |-> 0, val |-> "config"])
       IN /\ routeContext' = w.rc
          /\ globalContext' = w.gc
    /\ UNCHANGED <<tree, phase, routes, appConfig, reqs, probe, previous>>

\* Some code calls useSetContext(key, value).
ContextWrite(key, value) ==
    /\ LET w == useSetContext(routeContext, globalContext, key, value)
       IN /\ routeContext' = w.rc
          /\ globalContext' = w.gc
    /\ probe' = Probe("write", key, value)
    /\ UNCHANGED <<tree, phase, routes, appConfig, reqs, previous>>

\* Some code calls useContext(key).
ContextRead(key) ==
    /\ probe' = Probe("read", key, useContext(routeContext, globalContext, key))
    /\ UNCHANGED <<tree, phase, routes, appConfig, routeContext, globalContext, reqs,
                   previous>>

Next ==
    \/ \E t \in DispatchTrees : Serve(t)
    \/ \E r \in RequestIds, in \in RequestInputs : Arrive(r, in)
    \/ \E r \in RequestIds : Resume(r)
    \/ OutsideWrite

Spec == Init /\ [][Next]_vars

\* Routes whose schemas a validation middleware enforces.
ValidationTree ==
    App(<<Route("createItem", "/items", "POST", <<>>, "zQuery", "zBody"),
          Route("createItem", "/items/:id", "PUT", <<>>, "", "zBody"),
          Route("createItem", "/items", "GET", <<>>, "", ""),
          Route("createItem", "*", "POST", <<>>, "zQuery", "zBody")>>,
        0, FALSE, <<"validation">>)

ValidationInputs ==
    { Input("POST", "/items", "?page=2", ""),
      InvalidInput("POST", "/items", "", {"body"}),
      InvalidInput("POST", "/items", "", {"query"}),
      Input("PUT", "/items/7", "", ""),
      Input("GET", "/items", "", ""),
      Input("POST", "/orders", "", "") }

NextValidate ==
    \/ Serve(ValidationTree)
    \/ \E r \in RequestIds, in \in ValidationInputs : Arrive(r, in)
    \/ \E r \in RequestIds : Resume(r)

SpecValidate == Init /\ [][NextValidate]_vars

\* The context store written and read while requests come and go.
ContextKeys == {"user", "body"}

ContextValues ==
    { Undefined, [src |-> "code", req |-> 0, val |-> "a"],
      [src |-> "code", req |-> 0, val |-> "b"] }

NextContext ==
    \/ Serve(BareTree)
    \/ \E r \in RequestIds : Arrive(r, Input("GET", "/me", "", ""))
    \/ \E r \in RequestIds : Resume(r)
    \/ \E k \in ContextKeys, v \in ContextValues : ContextWrite(k, v)
    \/ \E k \in ContextKeys : ContextRead(k)

SpecContext == Init /\ [][NextContext]_vars

\* Trees served one after another; some abort, one after adding a route.
PartialTree ==
    ArrayOf(<<HealthRoute, Route("userById", "/users/:id", "", <<>>, "", "")>>)

ReserveTrees ==
    { TreeOf(sh, "/api", "", path, m, "", "userById") :
        sh \in {"app", "array", "container"}, path \in {"/users/:id", "*"},
        m \in {"", "GET", "post"} }
    \cup { PartialTree, ProtectedTree }

NextReserve ==
    \/ \E t \in ReserveTrees : Serve(t)
    \/ \E t \in ReserveTrees : ServeAgain(t)

SpecReserve == Init /\ [][NextReserve]_vars

\* A RouteGroup whose two Routes and two Middleware children come in every
\* order, written as builder calls or as JSX, with or without a middleware
\* prop, its second Route bare or inside a nested RouteGroup, and a Route
\* beside the group, before or after it.
Orders == { p \in [1..4 -> 1..4] : \A i, j \in 1..4 : p[i] = p[j] => i = j }

Inners == {"route", "nestedBefore", "nestedAfter"}

GroupTreeOf(order, jsx, groupMiddleware, inner, healthFirst) ==
    LET W(el) == IF jsx THEN Jsx(el) ELSE el
        listItems == W(Route("listItems", "/items", "GET", <<"asyncAuth">>, "", ""))
        getItem == W(Route("getItem", "/items/:id", "GET", <<>>, "", ""))
        second ==
            CASE inner = "route" -> getItem
              [] inner = "nestedBefore" ->
                   W(RouteGroup(<<W(Middleware(<<"respondEarly">>)), getItem>>, "/v1", <<>>))
              [] inner = "nestedAfter" ->
                   W(RouteGroup(<<getItem, W(Middleware(<<"respondEarly">>))>>, "/v1", <<>>))
        items == <<listItems, W(Middleware(<<"slowRoute">>)), second,
                   W(Middleware(<<"validation", "rejecting">>))>>
        group == W(RouteGroup([i \in 1..4 |-> items[order[i]]], "/api",
                              groupMiddleware))
        health == W(Route("welcome", "/health", "GET", <<"rateLimit">>, "", ""))
    IN W(App(IF healthFirst THEN <<health, group>> ELSE <<group, health>>,
             0, FALSE, <<"logging">>))

GroupTrees ==
    { GroupTreeOf(o, jsx, gm, inner, hf) :
        o \in Orders, jsx \in BOOLEAN, gm \in {<<>>, <<"auth">>}, inner \in Inners,
        hf \in BOOLEAN }

NextGroup == \E t \in GroupTrees : Serve(t)

SpecGroup == Init /\ [][NextGroup]_vars

\* Tables with two or three wildcard routes, in every order.
WildcardRoutesOf ==
    <<Route("notFound", "*", "GET", <<"logging">>, "", ""),
      Route("hello", "*", "post", <<>>, "", ""),
      Route("welcome", "*", "ALL", <<"slowRoute">>, "", "")>>

WildcardOrders ==
    { s \in UNION { [1..n -> 1..3] : n \in 2..3 } :
        \A i, j \in DOMAIN s : s[i] = s[j] => i = j }

WildcardTrees ==
    { App(<<HealthRoute>> \o [i \in DOMAIN s |-> WildcardRoutesOf[s[i]]],
          0, FALSE, <<>>) : s \in WildcardOrders }

WildcardInputs ==
    { Input(m, p, "", "") : m \in {"GET", "POST", "DELETE"}, p \in {"/nope", "/health"} }

NextWildcard ==
    \/ \E t \in WildcardTrees : Serve(t)
    \/ \E r \in RequestIds, in \in WildcardInputs : Arrive(r, in)
    \/ \E r \in RequestIds : Resume(r)

SpecWildcard == Init /\ [][NextWildcard]_vars

\* A table with two methods on one path, one of them a method serve has
\* no registrar for, and a route for every method on another path.
AllowTree ==
    App(<<Route("welcome", "/health", "GET", <<>>, "", ""),
          Route("hello", "/health", "TRACE", <<>>, "", ""),
          Route("hello", "/items", "ALL", <<>>, "", "")>>,
        0, FALSE, <<"asyncAuth">>)

AllowInputs ==
    { Input(m, p, "", "") :
        m \in {"GET", "POST", "TRACE"}, p \in {"/health", "/items", "/nope"} }

NextAllow ==
    \/ Serve(AllowTree)
    \/ \E r \in RequestIds, in \in AllowInputs : Arrive(r, in)
    \/ \E r \in RequestIds : Resume(r)

SpecAllow == Init /\ [][NextAllow]_vars

\* The engine serving the tree of failing code.
NextFaults ==
    \/ Serve(FaultTree)
    \/ \E r \in RequestIds, in \in FaultInputs : Arrive(r, in)
    \/ \E r \in RequestIds : Resume(r)

SpecFaults == Init /\ [][NextFaults]_vars

\* wrapped(req, res) of a route without middleware whose handler returns
\* output without awaiting: open the scope, send the output, clear.
Respond(r, output) ==
    /\ phase = "serving"
    /\ reqs[r].st = "new"
    /\ LET rc == OpenScope(r, "", "")
           q == [NewRequest EXCEPT !.method = "GET", !.path = "/",
                                   !.originalUrl = "/", !.via = "route",
                                   !.scopeAtOpen = rc]
           m == Finish(Machine(rc, globalContext, q, r), output)
       IN /\ routeContext' = m.rc
          /\ globalContext' = m.gc
          /\ reqs' = [reqs EXCEPT ![r] = m.q]
    /\ UNCHANGED <<tree, phase, routes, appConfig, probe, previous>>

\* The values of a Response element's props the normalisation tells apart.
Statuses == { <<0, TRUE>>, <<201, TRUE>>, <<301, TRUE>>, <<307, FALSE>> }
Texts == { Absent, "", "plain" }
Htmls == { Absent, "<p>hi</p>" }
Jsons == { Absent, "{ok}" }
HeaderSets == { {}, {<<"X-A", "1">>}, {<<"X-A", "1">>, <<"X-B", "2">>} }
Redirects == { "", "/login" }

ResponseElements ==
    { Response([status |-> s[1], statusIsNumber |-> s[2], json |-> j,
                text |-> t, html |-> h, headers |-> hs, redirect |-> rd]) :
        s \in Statuses, j \in Jsons, t \in Texts, h \in Htmls,
        hs \in HeaderSets, rd \in Redirects }

Outputs ==
    ResponseElements
    \cup { Falsy(v) : v \in {"undefined", "null", "false", "0", ""} }
    \cup { PlainObject("row"), Primitive("hi"), Primitive("42") }

\* sendResponseFromOutput applied to every output, on the first request.
NextRespond ==
    \/ Serve(ApiTree)
    \/ \E output \in Outputs : Respond(1, output)

SpecRespond == Init /\ [][NextRespond]_vars

NextCompile == \E t \in CompileTrees : Serve(t)

SpecCompile == Init /\ [][NextCompile]_vars


-----------------------------------------------------------------------------
(* Vocabulary of the properties *)

\* the request was taken by a compiled route's handler (regular or wildcard)
Scoped(q) == q.via \in {"route", "wildcard"}

InFlight(q) == q.st = "suspended"

IsPrefix(xs, ys) ==
    Len(xs) <= Len(ys) /\ \A i \in 1..Len(xs) : xs[i] = ys[i]

\* a route whose method and path the request matches, said without the
\* transport: the route's method, upper-cased, is the request's or ALL
MatchesRoute(route, q) ==
    /\ toUpperCase(route.method) \in {q.method, "ALL"}
    /\ PathMatches(route.path, q.path)

\* the Route node at pos has what processElement needs to compile it
Compilable(n) == Truthy(n.props.path) /\ Truthy(n.props.handler)

-----------------------------------------------------------------------------
(* C1 - isolation of the ambient scope between interleaved requests *)

\* C1: a context read made by a request never returns a value that belongs
\* to another request: neither a value another request's code wrote, nor a
\* seed or scope of another request; and a read of a process-wide entry
\* returns the process-wide value.
C1_NoCrossRequestRead ==
    \A r \in RequestIds : \A i \in 1..Len(reqs[r].reads) :
        LET v == reqs[r].reads[i].val
        IN /\ v.src \in {"mw", "seed", "scope"} => v.req = r
           /\ reqs[r].reads[i].key = "config" /\ v # Undefined => v.src = "global"

-----------------------------------------------------------------------------
(* C2 - the active scope follows the requests in flight *)

\* C2: the active scope is null exactly when no request is in flight, and
\* while a request is in flight (its scope created, its teardown not yet
\* run) the active scope is that request's scope.
C2_ActiveScopeIsTheRequestsScope ==
    /\ routeContext.active <=> \E r \in RequestIds : InFlight(reqs[r])
    /\ \A r \in RequestIds : InFlight(reqs[r]) => routeContext.req = r

-----------------------------------------------------------------------------
(* C3 - middleware order *)

\* C3: for every request a compiled route handles, the code that has run
\* is at every moment an initial part of: the middleware of the enclosing
\* nodes from the outermost to the innermost (App, then RouteGroups), then
\* the Route's own middleware, then the handler; and when every middleware
\* of the chain calls its continuation and the request is done, all of it
\* has run, once each, in that order.
C3_MiddlewareOrder ==
    \A r \in RequestIds :
        LET q == reqs[r]
            chain == q.middlewares \o <<q.handler>>
        IN q.via = "route" =>
             /\ \E pos \in RoutePositions(tree) :
                   LET n == NodeAt(tree, pos)
                   IN /\ n.props.handler = q.handler
                      /\ q.middlewares =
                           EnclosingMiddlewares(tree, pos) \o n.props.middleware
             /\ IsPrefix(q.log, chain)
             /\ (q.st = "done"
                 /\ \A k \in 1..Len(q.middlewares) :
                        Behaviour(q.middlewares[k], q).fin = "next")
                => q.log = chain

\* a request went through App, group and route middleware and its handler
C3_Witness ==
    \E r \in RequestIds :
        /\ reqs[r].st = "done"
        /\ reqs[r].log = <<"logging", "asyncAuth", "slowRoute", "userById">>

-----------------------------------------------------------------------------
(* C4 - short-circuit *)

\* C4: when a middleware of a request's chain returns a value without
\* calling its continuation, it is the last code that runs for the request
\* (no later middleware, not the handler), and its value is the output that
\* is turned into the response.
C4_ShortCircuit ==
    \A r \in RequestIds :
        LET q == reqs[r]
        IN Scoped(q) =>
             \A k \in 1..Len(q.log) :
                 (k <= Len(q.middlewares)
                  /\ Behaviour(q.middlewares[k], q).fin = "return")
                 => /\ Len(q.log) = k
                    /\ q.st = "done" =>
                          LET out == Behaviour(q.middlewares[k], q).out
                          IN /\ q.output = out
                             /\ q.res.headersSent
                             /\ q.res.status = out.props.status
                             /\ q.res.body.data = out.props.json

\* the auth middleware answered 401 and the handler never ran
C4_Witness ==
    \E r \in RequestIds :
        /\ reqs[r].st = "done"
        /\ reqs[r].log = <<"logging", "auth">>
        /\ reqs[r].handler = "me"
        /\ reqs[r].res.status = 401
        /\ reqs[r].res.body.data = "Unauthorized"

-----------------------------------------------------------------------------
(* C5 - 405 for a known path *)

\* C5: a request whose path is matched by the path of a regular route (a
\* literal path or a pattern with parameters) while no regular route has
\* its method on that path is answered 405, with an Allow header and the
\* "Method Not Allowed" body naming its path and method.
C5_MethodNotAllowed ==
    \A r \in RequestIds :
        LET q == reqs[r]
        IN (/\ q.st = "done"
            /\ \E i \in 1..Len(regularRoutes) :
                   PathMatches(regularRoutes[i].path, q.path)
            /\ \A i \in 1..Len(regularRoutes) : ~MatchesRoute(regularRoutes[i], q))
           => /\ q.res.status = 405
              /\ \E h \in q.res.headers : h[1] = "Allow"
              /\ q.res.body.error = "Method Not Allowed"
              /\ q.res.body.path = q.path
              /\ q.res.body.method = q.method

-----------------------------------------------------------------------------
(* C6 - the default 404 *)

NotFoundCase(q) ==
    /\ q.st = "done"
    /\ Len(wildcardRoutes) = 0
    /\ \A i \in 1..Len(regularRoutes) : ~PathMatches(regularRoutes[i].path, q.path)

\* C6 as claimed: with no wildcard route, a request whose path matches no
\* regular route gets 404 and the "Not Found" body naming its method and
\* its path.
C6_NotFoundNamesPath ==
    \A r \in RequestIds :
        LET q == reqs[r]
        IN NotFoundCase(q) =>
             /\ q.res.status = 404
             /\ q.res.body =
                  [error |-> "Not Found",
                   message |-> "Route " \o q.method \o " " \o q.path \o " not found",
                   path |-> q.path, method |-> q.method, data |-> ""]

\* C6 as amended: the body names the request's method and its original URL
\* (the path followed by the query string).
C6_NotFoundNamesOriginalUrl ==
    \A r \in RequestIds :
        LET q == reqs[r]
        IN NotFoundCase(q) =>
             /\ q.res.status = 404
             /\ q.res.type = "application/json"
             /\ q.res.body =
                  [error |-> "Not Found",
                   message |-> "Route " \o q.method \o " " \o q.originalUrl
                               \o " not found",
                   path |-> q.originalUrl, method |-> q.method, data |-> ""]

\* GET /nope?x=1 was answered 404 by a table without wildcard routes
C6_Witness ==
    \E r \in RequestIds :
        /\ NotFoundCase(reqs[r])
        /\ reqs[r].originalUrl = "/nope?x=1"
        /\ reqs[r].res.body.message = "Route GET /nope?x=1 not found"

-----------------------------------------------------------------------------
(* C7 - a matching regular route handles the request *)

-----------------------------------------------------------------------------
(* C8 - compiled paths *)

\* C8: every emitted route comes from a Route node of the tree, and its
\* path is the prefixes of the RouteGroups enclosing that node, outermost
\* first, followed by the node's own path.
C8_PathIsPrefixConcatenation ==
    \A i \in 1..Len(routes) :
        \E pos \in RoutePositions(tree) :
            LET n == NodeAt(tree, pos)
            IN /\ n.props.handler = routes[i].handler
               /\ routes[i].path = EnclosingPrefixes(tree, pos) \o n.props.path

\* two nested prefixed groups around a compiled route
C8_Witness ==
    /\ phase = "serving"
    /\ \E i \in 1..Len(routes) :
          routes[i].path = "/api/v1/users/:id" /\ routes[i].handler = "userById"

-----------------------------------------------------------------------------
(* C9 - the body-schema / method invariant *)

BadBodyRoute(n) ==
    /\ Truthy(n.props.body)
    /\ Truthy(n.props.method)
    /\ toUpperCase(n.props.method) \notin {"POST", "PUT", "PATCH", "DELETE"}

TableBodyInvariant ==
    \A i \in 1..Len(routes) :
        Truthy(routes[i].bodySchema)
        => toUpperCase(routes[i].method) \in {"POST", "PUT", "PATCH", "DELETE"}

-----------------------------------------------------------------------------
(* C10 - a Route without a method *)

MissingMethod(n) == ~Truthy(n.props.method)

\* C10 as claimed: compiling a tree that contains a Route node whose
\* method is missing fails.
C10_MissingMethodAnyRoute ==
    phase # "init" =>
        \A pos \in RoutePositions(tree) :
            MissingMethod(NodeAt(tree, pos)) => phase = "failed"

\* C10 as amended: compiling a tree that contains a Route node that has a
\* path and a handler and whose method is missing fails, and that Route is
\* not emitted.
C10_MissingMethodCompilableRoute ==
    phase # "init" =>
        \A pos \in RoutePositions(tree) :
            LET n == NodeAt(tree, pos)
            IN MissingMethod(n) /\ Compilable(n)
               => /\ phase = "failed"
                  /\ \A i \in 1..Len(routes) : routes[i].handler # n.props.handler

\* serve failed on a Route with a path and a handler and no method
C10_Witness ==
    /\ phase = "failed"
    /\ \E pos \in RoutePositions(tree) :
          LET n == NodeAt(tree, pos)
          IN MissingMethod(n) /\ Compilable(n) /\ ~Truthy(n.props.body)

-----------------------------------------------------------------------------
(* C11 - a throw in user code *)

\* what a middleware's res.status(202).json(...) left on the response
AnsweredByCode == SendJson(FreshRes, 202, [NoBody EXCEPT !.data = "accepted"])

\* C11: whatever a middleware or a handler throws is caught: the request
\* ends, and unless its code had already answered, its response is status
\* 500 with the JSON body { error: "Internal server error" } and nothing
\* of the thrown value, the same for every thrown value; a response the
\* code had already sent is left as it was.
C11_ThrowIsInternalServerError ==
    \A r \in RequestIds :
        reqs[r].threw =>
            /\ reqs[r].st = "done"
            /\ IF reqs[r].sentByCode
               THEN reqs[r].res = AnsweredByCode
               ELSE /\ reqs[r].res.headersSent
                    /\ reqs[r].res.status = 500
                    /\ reqs[r].res.type = "application/json"
                    /\ reqs[r].res.body =
                         [error |-> "Internal server error", message |-> "",
                          path |-> "", method |-> "", data |-> ""]

\* two requests threw different values, one of them in a wildcard route,
\* and got the same response
C11_Witness ==
    \E r1, r2 \in RequestIds :
        /\ reqs[r1].threw /\ reqs[r2].threw
        /\ reqs[r1].thrown = "secret" /\ reqs[r2].thrown = "Error: boom"
        /\ reqs[r2].via = "wildcard"
        /\ reqs[r1].res = reqs[r2].res /\ reqs[r1].res.status = 500

-----------------------------------------------------------------------------
(* C12 - teardown on every exit path *)

NoRequestInFlight == \A r \in RequestIds : ~InFlight(reqs[r])

\* C12: on every exit path of a request a compiled route handles (its
\* output sent, a 500 for a missing or invalid output, a caught throw) the
\* step that ends the request leaves the active scope null; and whenever no
\* request is in flight the active scope is null, so that useRoute throws.
C12_TeardownOnEveryExit ==
    /\ [](NoRequestInFlight =>
            ~routeContext.active /\ useRoute(routeContext).threw)
    /\ [][\A r \in RequestIds :
            Scoped(reqs'[r]) /\ reqs[r].st # "done" /\ reqs'[r].st = "done"
                => routeContext' = NullContext]_vars

\* a request ended by a caught throw, another by a 500 for a missing
\* output, none in flight, and the scope is null
C12_Witness ==
    /\ NoRequestInFlight
    /\ ~routeContext.active
    /\ \E r1, r2 \in RequestIds :
          /\ reqs[r1].threw /\ reqs[r1].scopeAtOpen.active
          /\ reqs[r2].st = "done" /\ ~reqs[r2].threw /\ Scoped(reqs[r2])
          /\ reqs[r2].output.kind = "falsy"

-----------------------------------------------------------------------------
(* C13 - no response generated *)

\* C13: when the final value of the chain is falsy or absent (undefined,
\* null, false, 0, "") and nothing was sent, the response is status 500
\* with the JSON body { error: "No response generated" }; when the code
\* had already answered, the response is what the code sent.
C13_NoResponseGenerated ==
    \A r \in RequestIds :
        LET q == reqs[r]
        IN q.st = "done" /\ Scoped(q) /\ ~q.threw /\ q.output.kind = "falsy" =>
              IF q.sentByCode
              THEN q.res = AnsweredByCode
              ELSE /\ q.res.headersSent
                   /\ q.res.status = 500
                   /\ q.res.type = "application/json"
                   /\ q.res.body =
                        [error |-> "No response generated", message |-> "",
                         path |-> "", method |-> "", data |-> ""]

\* one request's handler returned 0 after an await and got the 500, another's
\* middleware had answered before its handler returned null
C13_Witness ==
    \E r1, r2 \in RequestIds :
        /\ reqs[r1].st = "done" /\ reqs[r1].output = Falsy("0")
        /\ reqs[r1].res.status = 500
        /\ reqs[r2].st = "done" /\ reqs[r2].output = Falsy("null")
        /\ reqs[r2].sentByCode /\ reqs[r2].res.status = 202

-----------------------------------------------------------------------------
(* C14 - a Response with json, status and headers *)

\* the request ended with a Response element returned on a fresh response
Normalised(q) ==
    q.st = "done" /\ Scoped(q) /\ ~q.threw /\ ~q.sentByCode
    /\ q.output.kind = "response"

\* C14: a Response carrying json, a status and headers, and no redirect,
\* text or html, yields a response with every one of those headers, the
\* given status and the json as its JSON body.
C14_JsonStatusHeaders ==
    \A r \in RequestIds :
        LET q == reqs[r]
            p == q.output.props
        IN Normalised(q) /\ p.json # Absent /\ p.status # 0
           /\ p.redirect = "" /\ p.text = Absent /\ p.html = Absent =>
              /\ q.res.headersSent
              /\ p.headers \subseteq q.res.headers
              /\ q.res.status = p.status
              /\ q.res.type = "application/json"
              /\ q.res.body = [error |-> "", message |-> "", path |-> "",
                               method |-> "", data |-> p.json]

\* status 201 with header X-A: 1 (and X-B) and a json body
C14_Witness ==
    \E r \in RequestIds :
        /\ Normalised(reqs[r])
        /\ reqs[r].output.props =
              [status |-> 201, statusIsNumber |-> TRUE, json |-> "{ok}",
               text |-> Absent, html |-> Absent, redirect |-> "",
               headers |-> {<<"X-A", "1">>, <<"X-B", "2">>}]
        /\ reqs[r].res.status = 201
        /\ <<"X-A", "1">> \in reqs[r].res.headers

-----------------------------------------------------------------------------
(* C20 - the branches of the Response normalisation *)

BodyOf(data) ==
    [error |-> "", message |-> "", path |-> "", method |-> "", data |-> data]

\* C20: the normalisation of a Response sets every header and then takes
\* exactly one branch, by priority redirect, text, html, json, status only,
\* default 200; a redirect uses the given status when it is a number and
\* 302 otherwise, and has no body of its own.
C20_BranchPriority ==
    \A r \in RequestIds :
        LET q == reqs[r]
            p == q.output.props
            given == IF p.status # 0 THEN p.status ELSE 200
        IN Normalised(q) =>
              /\ q.res.headersSent
              /\ q.res.headers = p.headers
              /\ IF p.redirect # ""
                 THEN /\ q.res.location = p.redirect
                      /\ q.res.status = IF p.status # 0 /\ p.statusIsNumber
                                        THEN p.status ELSE 302
                      /\ q.res.type = "" /\ q.res.body = BodyOf("")
                 ELSE /\ q.res.location = ""
                      /\ q.res.status = given
                      /\ IF p.text # Absent
                         THEN q.res.type = "text/plain" /\ q.res.body = BodyOf(p.text)
                         ELSE IF p.html # Absent
                         THEN q.res.type = "text/html" /\ q.res.body = BodyOf(p.html)
                         ELSE IF p.json # Absent
                         THEN q.res.type = "application/json"
                              /\ q.res.body = BodyOf(p.json)
                         ELSE q.res.type = "" /\ q.res.body = BodyOf("")

\* a Response with text, html and json at once was sent as text/plain
C20_Witness ==
    \E r \in RequestIds :
        LET p == reqs[r].output.props
        IN /\ Normalised(reqs[r])
           /\ p.redirect = "" /\ p.text = "plain" /\ p.html # Absent
           /\ p.json # Absent /\ p.status = 201
           /\ reqs[r].res.type = "text/plain" /\ reqs[r].res.status = 201

-----------------------------------------------------------------------------
(* C15 - reads after a write of a reserved key *)

ReservedKeys == {"body", "query", "params"}

\* the ways a request's code reads the reserved key k
ReadsOf(k) == {k, "snapshot." \o k, "useRoute." \o k}

\* C15: within one request, once a middleware has written the reserved key
\* body, query or params, every later read of it in that request, by
\* useContext(key), by the snapshot useContext() or by the field of
\* useRoute(), yields the value written.
C15_ReadsYieldWrittenValue ==
    \A r \in RequestIds : \A k \in ReservedKeys :
        k \in reqs[r].wrote =>
            \A i \in 1..Len(reqs[r].reads) :
                reqs[r].reads[i].key \in ReadsOf(k) =>
                    reqs[r].reads[i].val = [src |-> "mw", req |-> r, val |-> k]

\* a request whose validated body was read back all three ways
C15_ReadBack ==
    \E r \in RequestIds :
        /\ "body" \in reqs[r].wrote
        /\ \A key \in ReadsOf("body") :
              \E i \in 1..Len(reqs[r].reads) :
                 /\ reqs[r].reads[i].key = key
                 /\ reqs[r].reads[i].val = [src |-> "mw", req |-> r, val |-> "body"]

-----------------------------------------------------------------------------
(* C16 - where a context write goes and where a read looks *)

\* the step was a direct call of useSetContext that changed something
WriteStep ==
    /\ probe'.op = "write" /\ reqs' = reqs /\ tree' = tree
    /\ <<routeContext, globalContext, probe>>' # <<routeContext, globalContext, probe>>

ReadStep == probe'.op = "read" /\ probe' # probe

\* m with key k bound to v and every other binding as it was
Bound(m, k, v) == [x \in (DOMAIN m) \cup {k} |-> IF x = k THEN v ELSE m[x]]

\* the entry of m for k if present
Entry(m, k) == IF k \in DOMAIN m THEN m[k] ELSE Undefined

\* C16: with an active scope a write goes into the scope's entries only (the
\* process-wide map is unchanged) and a read returns the scope's entry if
\* one is present (an entry holding undefined being absent), otherwise the
\* process-wide entry; with no active scope a write goes into the
\* process-wide map and a read looks only there.
C16_ContextResolution ==
    [][ /\ WriteStep =>
             IF routeContext.active
             THEN /\ globalContext' = globalContext
                  /\ routeContext'.middlewareContext =
                        Bound(routeContext.middlewareContext, probe'.key, probe'.val)
             ELSE /\ routeContext' = routeContext
                  /\ globalContext' = Bound(globalContext, probe'.key, probe'.val)
        /\ ReadStep =>
             probe'.val =
                IF routeContext.active
                   /\ Entry(routeContext.middlewareContext, probe'.key) # Undefined
                THEN routeContext.middlewareContext[probe'.key]
                ELSE Entry(globalContext, probe'.key)
      ]_vars

\* with a scope active, a read returned the scope's entry although the
\* process-wide map holds another value for the key
C16_Witness ==
    /\ probe.op = "read" /\ probe.key = "user"
    /\ routeContext.active
    /\ Entry(routeContext.middlewareContext, "user") = probe.val
    /\ probe.val.val = "a"
    /\ Entry(globalContext, "user").val = "b"

-----------------------------------------------------------------------------
(* C17 - serve starts from an empty table and configuration *)

\* C17: after any sequence of serve calls, also after a call that aborted
\* with a configuration error, the table and the configuration hold only
\* what the latest tree defines: they are what compiling that tree alone,
\* from an empty table, gives; in particular serving the same tree twice
\* gives the table of serving it once, and no entry is left from before.
C17_LatestTreeOnly ==
    phase # "init" =>
        LET alone == serveCompile(tree, <<>>, EmptyConfig)
        IN /\ routes = alone.routes
           /\ appConfig = alone.appConfig
           /\ Len(routes) <= Cardinality(RoutePositions(tree))
           /\ \A i \in 1..Len(routes) :
                 \E pos \in RoutePositions(tree) :
                    NodeAt(tree, pos).props.handler = routes[i].handler
           /\ previous.tree = tree /\ previous.phase = phase =>
                 routes = previous.routes /\ appConfig = previous.appConfig

\* serve found the table an aborted call had left a route in, and the table
\* it made has none of it
C17_Witness ==
    /\ previous.phase = "failed" /\ Len(previous.routes) > 0
    /\ previous.routes[1].path = "/health"
    /\ phase = "serving" /\ tree = ProtectedTree
    /\ Len(routes) = 2
    /\ \A i \in 1..Len(routes) : routes[i].path # "/health"

-----------------------------------------------------------------------------
(* C18 - the port serve listens on *)

\* some App node of the tree gives a port
PortSpecified(el) ==
    \E pos \in Positions(el) :
        IsType(NodeAt(el, pos), "App") /\ NodeAt(el, pos).props.port # 0

\* C18: serve binds the transport to the port of the configuration, and for
\* every tree in which no port is specified, with or without an App node,
\* with or without cors, that port is 6969.
C18_DefaultPort ==
    phase = "serving" =>
        /\ appConfig.port # 0 => listenPort(appConfig) = appConfig.port
        /\ ~PortSpecified(tree) => listenPort(appConfig) = 6969

-----------------------------------------------------------------------------
(* C19 - failures are answered by the engine, as JSON with an error field *)

\* the request ended in a failure: no route took it, or its code threw or
\* gave no valid output; and its code had not answered it itself
Failure(q) ==
    /\ q.st = "done"
    /\ ~q.sentByCode
    /\ \/ ~Scoped(q)
       \/ q.threw
       \/ q.output.kind \in {"falsy", "object"}

\* C19: for every table, with or without wildcard routes, and every
\* request, a failure (an unmatched path, a method mismatch, a throw, a
\* missing or invalid output) is answered by the engine itself with status
\* 404, 405 or 500 and a JSON body carrying an error field: no request is
\* left without a response produced by the engine.
C19_FailuresAreJsonErrors ==
    \A r \in RequestIds :
        Failure(reqs[r]) =>
            /\ reqs[r].res.headersSent
            /\ reqs[r].res.status \in {404, 405, 500}
            /\ reqs[r].res.type = "application/json"
            /\ reqs[r].res.body.error # ""

-----------------------------------------------------------------------------
(* C21 - a truthy final value that is not a Response *)

\* C21: a truthy final value that is not a Response element is not thrown:
\* a plain object gives status 500 with the JSON body
\* { error: "Invalid response format" } unless the code had already
\* answered (then the response stays what the code sent), and a primitive
\* is sent as text with the default status 200.
C21_InvalidOrPrimitiveOutput ==
    \A r \in RequestIds :
        LET q == reqs[r]
        IN q.st = "done" /\ Scoped(q) /\ q.output.kind \in {"object", "primitive"} =>
              /\ ~q.threw
              /\ q.output.kind = "object" =>
                    IF q.sentByCode
                    THEN q.res = AnsweredByCode
                    ELSE /\ q.res.headersSent
                         /\ q.res.status = 500
                         /\ q.res.type = "application/json"
                         /\ q.res.body =
                              [error |-> "Invalid response format", message |-> "",
                               path |-> "", method |-> "", data |-> ""]
              /\ q.output.kind = "primitive" /\ ~q.sentByCode =>
                    /\ q.res.headersSent
                    /\ q.res.status = 200
                    /\ q.res.body = [error |-> "", message |-> "", path |-> "",
                                     method |-> "", data |-> q.output.val]

\* one handler returned a plain object and got the 500, another returned
\* one after its middleware had answered
C21_Witness ==
    \E r1, r2 \in RequestIds :
        /\ reqs[r1].st = "done" /\ reqs[r1].output.kind = "object"
        /\ ~reqs[r1].sentByCode /\ reqs[r1].res.status = 500
        /\ reqs[r2].st = "done" /\ reqs[r2].output.kind = "object"
        /\ reqs[r2].sentByCode /\ reqs[r2].res.status = 202

-----------------------------------------------------------------------------
(* C22 - a RouteGroup's Middleware children apply wherever they stand *)

IsMiddlewareNode(el) == IsType(el, "Middleware")

\* the tree with, in every RouteGroup, the Middleware children moved in
\* front of their siblings (both kinds keeping their own order)
RECURSIVE MiddlewareFirst(_)
MiddlewareFirst(el) ==
    LET kids == [i \in 1..Len(el.props.children) |->
                    MiddlewareFirst(el.props.children[i])]
    IN [el EXCEPT !.props.children =
           IF IsType(el, "RouteGroup")
           THEN SelectSeq(kids, IsMiddlewareNode)
                \o SelectSeq(kids, LAMBDA c : ~IsMiddlewareNode(c))
           ELSE kids]

\* the uses of the direct Middleware children of a group, in sibling order
RECURSIVE UsesOf(_)
UsesOf(children) ==
    IF children = <<>> THEN <<>>
    ELSE (IF IsMiddlewareNode(Head(children)) THEN Head(children).props.use ELSE <<>>)
         \o UsesOf(Tail(children))

\* the position of the node enclosing the node at pos
Parent(pos) == SubSeq(pos, 1, Len(pos) - 1)

\* C22: the middleware of every direct Middleware child of a RouteGroup is
\* in the chain of every route of the group wherever the child stands among
\* its siblings: the table is the table of the tree with the Middleware
\* children moved to the front; a route's chain is the inherited middleware,
\* then its group's (the prop, then the Middleware children in their order),
\* then the Route's own; and no Middleware node becomes a route.
C22_GroupMiddlewarePositionFree ==
    phase = "serving" =>
        /\ routes = serveCompile(MiddlewareFirst(tree), <<>>, EmptyConfig).routes
        /\ Len(routes) = Cardinality(RoutePositions(tree))
        /\ \A i \in 1..Len(routes) :
              \E pos \in RoutePositions(tree) :
                 LET n == NodeAt(tree, pos)
                     g == NodeAt(tree, Parent(pos))
                 IN /\ n.props.handler = routes[i].handler
                    /\ IsType(g, "RouteGroup") =>
                          routes[i].middlewares =
                             EnclosingMiddlewares(tree, Parent(pos))
                             \o g.props.middleware \o UsesOf(g.props.children)
                             \o n.props.middleware

\* a route standing before both Middleware children of its group, in a tree
\* written as JSX, has them in its chain between auth and its own
C22_Witness ==
    /\ phase = "serving"
    /\ \E pos \in RoutePositions(tree) :
          LET g == NodeAt(tree, Parent(pos))
          IN /\ IsType(g, "RouteGroup") /\ g.fc
             /\ NodeAt(tree, pos).props.handler = "listItems"
             /\ pos[Len(pos)] = 1
    /\ \E i \in 1..Len(routes) :
          /\ routes[i].handler = "listItems"
          /\ routes[i].middlewares =
                <<"logging", "auth", "slowRoute", "validation", "rejecting", "asyncAuth">>

-----------------------------------------------------------------------------
(* C23 - which wildcard route answers *)

\* the wildcard route's method is ALL or the request's, whatever the case
TakesMethod(route, q) == toUpperCase(route.method) \in {"ALL", q.method}

\* C23: a wildcard route's handler runs its chain for a request only when
\* the route's method is ALL or is the request's method up to case;
\* otherwise it sends nothing, opens no scope and passes the request on: the
\* request is answered by the first wildcard route, in table order, that
\* takes its method, and by none of them when none does.
C23_FirstAcceptingWildcard ==
    \A r \in RequestIds :
        LET q == reqs[r]
        IN /\ q.via = "wildcard" =>
                /\ q.route \in 1..Len(wildcardRoutes)
                /\ TakesMethod(wildcardRoutes[q.route], q)
                /\ \A j \in 1..(q.route - 1) : ~TakesMethod(wildcardRoutes[j], q)
                /\ q.scopeAtOpen.active /\ q.scopeAtOpen.req = r
                /\ IsPrefix(q.log, wildcardRoutes[q.route].middlewares
                                   \o <<wildcardRoutes[q.route].handler>>)
           /\ q.via = "transport" =>
                /\ \A j \in 1..Len(wildcardRoutes) : ~TakesMethod(wildcardRoutes[j], q)
                /\ q.res = FreshRes
                /\ ~q.scopeAtOpen.active
                /\ q.log = <<>>

\* a POST that the first wildcard route (GET) passed on and the second took,
\* and a DELETE that no wildcard route took
C23_Witness ==
    \E r1, r2 \in RequestIds :
        /\ reqs[r1].via = "wildcard" /\ reqs[r1].method = "POST"
        /\ reqs[r1].route = 2 /\ wildcardRoutes[1].method = "get"
        /\ wildcardRoutes[2].method = "post" /\ reqs[r1].st = "done"
        /\ reqs[r2].via = "transport" /\ reqs[r2].method = "DELETE"

-----------------------------------------------------------------------------
(* C24 - which routes are wildcard routes *)

\* how often x occurs in the sequence xs
Count(xs, x) == Cardinality({ i \in 1..Len(xs) : xs[i] = x })

\* C24: a compiled route is a wildcard route exactly when its full path,
\* prefixes included, is "*"; every other route, also a Route with path "*"
\* inside a RouteGroup with a prefix, is a regular route; and the regular
\* and the wildcard routes partition the table.
C24_WildcardIsExactStar ==
    phase = "serving" =>
        /\ \A i \in 1..Len(wildcardRoutes) : wildcardRoutes[i].path = "*"
        /\ \A i \in 1..Len(regularRoutes) : regularRoutes[i].path # "*"
        /\ \A i \in 1..Len(routes) :
              /\ Count(routes, routes[i]) =
                    Count(regularRoutes, routes[i]) + Count(wildcardRoutes, routes[i])
              /\ routes[i].path = "*" <=> Count(wildcardRoutes, routes[i]) > 0
        /\ Len(routes) = Len(regularRoutes) + Len(wildcardRoutes)
        /\ \A pos \in RoutePositions(tree) :
              LET n == NodeAt(tree, pos)
              IN Compilable(n) /\ n.props.path = "*"
                 /\ EnclosingPrefixes(tree, pos) # "" =>
                    /\ \E i \in 1..Len(regularRoutes) :
                          regularRoutes[i].path = EnclosingPrefixes(tree, pos) \o "*"
                    /\ wildcardRoutes = <<>>

\* a Route with path "*" under the prefixes /api and /v1 is a regular route
C24_Witness ==
    /\ phase = "serving"
    /\ \E i \in 1..Len(regularRoutes) : regularRoutes[i].path = "/api/v1*"
    /\ wildcardRoutes = <<>>

-----------------------------------------------------------------------------
(* C25 - the schemas of a route in the scope of its requests *)

\* the compiled route that took the request
RouteOf(q) ==
    IF q.via = "wildcard" THEN wildcardRoutes[q.route] ELSE regularRoutes[q.route]

\* C25: for every compiled route, regular or wildcard, that declared a body
\* or a query schema, the scope opened for a request to it holds the schema
\* under _bodySchema or _querySchema before the first middleware runs; and
\* the engine validates nothing itself: the scope's body and query are the
\* request's own.
C25_SchemasInScope ==
    \A r \in RequestIds :
        LET q == reqs[r]
            scope == q.scopeAtOpen
        IN Scoped(q) =>
              /\ Truthy(RouteOf(q).bodySchema) =>
                    Entry(scope.middlewareContext, "_bodySchema").val
                       = RouteOf(q).bodySchema
              /\ Truthy(RouteOf(q).querySchema) =>
                    Entry(scope.middlewareContext, "_querySchema").val
                       = RouteOf(q).querySchema
              /\ scope.body = SeedValue(r, "body")
              /\ scope.query = SeedValue(r, "query")

-----------------------------------------------------------------------------
(* C26 - writes of request code and the process-wide scope *)

\* C26: a context write made by a middleware or a handler, its request
\* being in flight, never changes the process-wide scope: whatever the
\* interleaving, the process-wide scope holds only entries written by code
\* outside any request.
C26_RequestWritesStayOutOfGlobal ==
    \A k \in DOMAIN globalContext : globalContext[k].src # "mw"

-----------------------------------------------------------------------------
(* C27 - middleware stays within the node that declares it *)

Range(xs) == { xs[i] : i \in 1..Len(xs) }

\* the middleware the node itself declares: its middleware prop and, for a
\* RouteGroup, the uses of its Middleware children
DeclaredBy(n) ==
    Range(n.props.middleware)
    \cup (IF IsType(n, "RouteGroup") THEN Range(UsesOf(n.props.children)) ELSE {})

\* C27: middleware never leaks sideways: a middleware is in a route's
\* chain only if the Route itself or a node enclosing it declares it, so a
\* middleware of a RouteGroup or of a Route is in no chain of a sibling or
\* of a route outside it, in whatever order the siblings stand.
C27_NoSidewaysLeak ==
    phase = "serving" =>
        \A i \in 1..Len(routes) :
            \E pos \in RoutePositions(tree) :
               /\ NodeAt(tree, pos).props.handler = routes[i].handler
               /\ \A m \in Range(routes[i].middlewares) :
                     \E at \in Positions(tree) :
                        IsPrefix(at, pos) /\ m \in DeclaredBy(NodeAt(tree, at))

\* the Route beside the group comes after it and has only the App's and its
\* own middleware, while a route of the group has the group's
C27_Witness ==
    /\ phase = "serving"
    /\ IsType(NodeAt(tree, <<1>>), "RouteGroup")
    /\ \E i, j \in 1..Len(routes) :
          /\ i < j
          /\ routes[i].handler = "getItem" /\ "auth" \in Range(routes[i].middlewares)
          /\ "respondEarly" \in Range(routes[i].middlewares)
          /\ routes[j].handler = "welcome"
          /\ routes[j].middlewares = <<"logging", "rateLimit">>

-----------------------------------------------------------------------------
(* C28 - the methods the index lists for a path are served *)

\* the paths that are keys of the path -> allowed-methods index
IndexedPaths == { regularRoutes[i].path : i \in 1..Len(regularRoutes) }

\* C28: every method the index lists for a path (and so every method of an
\* Allow header) has a handler registered for that method and path, and a
\* request for a path with a method the index lists for it is taken by a
\* route: it is not answered 404 or 405.
C28_ListedMethodsAreServed ==
    phase = "serving" =>
        /\ \A p \in IndexedPaths : \A k \in 1..Len(methodsByPath(p)) :
              \E i \in 1..Len(regularRoutes) :
                 RouteAccepts(regularRoutes[i], methodsByPath(p)[k], p)
        /\ \A r \in RequestIds :
              reqs[r].st # "new" /\ Includes(methodsByPath(reqs[r].path), reqs[r].method)
                 => reqs[r].via = "route"

-----------------------------------------------------------------------------
(* C29 - the chain's cursor belongs to the request *)

\* every middleware of the request's chain passes the request on
ChainCallsNext(q) ==
    \A i \in 1..Len(q.middlewares) : Behaviour(q.middlewares[i], q).fin = "next"

\* C29: the cursor of the middleware chain is the request's own: when
\* requests to the same route interleave at their awaits, each runs every
\* middleware of the chain once, in compiled order, and then the handler;
\* none skips or repeats a middleware because of another request.
C29_CursorPerRequest ==
    \A r \in RequestIds :
        LET q == reqs[r]
            chain == RouteOf(q).middlewares \o <<RouteOf(q).handler>>
        IN Scoped(q) =>
              /\ IsPrefix(q.log, chain)
              /\ q.middlewareIndex <= Len(q.middlewares)
              /\ q.st = "done" /\ ChainCallsNext(q) => q.log = chain

\* the second request to a route ran the three middleware and the handler
\* while the first, on the same route, is still at its await
C29_Witness ==
    \E r1, r2 \in RequestIds :
        /\ r1 < r2
        /\ reqs[r1].via = "route" /\ reqs[r2].via = "route"
        /\ reqs[r1].route = reqs[r2].route
        /\ reqs[r1].st = "suspended" /\ reqs[r1].middlewareIndex = 2
        /\ reqs[r2].st = "done"
        /\ reqs[r2].log = <<"logging", "asyncAuth", "slowRoute", "userById">>

-----------------------------------------------------------------------------
(* C30 - regular route, then 405, then wildcard *)

PrecedenceTree ==
    App(<<Route("welcome", "/health", "GET", <<>>, "", ""),
          Route("hello", "/health", "TRACE", <<>>, "", ""),
          Route("hello", "*", "POST", <<>>, "", ""),
          Route("notFound", "*", "ALL", <<>>, "", "")>>,
        0, FALSE, <<"asyncAuth">>)

PrecedenceInputs ==
    { Input(m, p, "", "") :
        m \in {"GET", "POST", "TRACE", "DELETE"}, p \in {"/health", "/nope", "/health/live"} }

NextPrecedence ==
    \/ Serve(PrecedenceTree)
    \/ \E r \in RequestIds, in \in PrecedenceInputs : Arrive(r, in)
    \/ \E r \in RequestIds : Resume(r)

SpecPrecedence == Init /\ [][NextPrecedence]_vars

\* the request's method and path are those of a Route that is not a wildcard
MatchesRegular(q) ==
    \E i \in 1..Len(regularRoutes) : MatchesRoute(regularRoutes[i], q)

\* C30: resolution goes regular route, then 405, then wildcard: a request
\* whose method and path match a regular route is never handled by a
\* wildcard route, and a request to a path that has methods of its own, the
\* incoming one not among them, is answered 405 even when a wildcard route
\* takes that method.
C30_RegularThen405ThenWildcard ==
    phase = "serving" =>
        \A r \in RequestIds :
            LET q == reqs[r]
            IN q.st # "new" =>
                  /\ MatchesRegular(q) => q.via # "wildcard"
                  /\ ~MatchesRegular(q) /\ methodsByPath(q.path) # <<>>
                        => q.via = "405"

\* the same order, for the methods the registration loop has a registrar for
C30_AmongRegistered ==
    phase = "serving" =>
        \A r \in RequestIds :
            LET q == reqs[r]
                taken == \E i \in 1..Len(regularRoutes) :
                            RouteAccepts(regularRoutes[i], q.method, q.path)
            IN q.st # "new" =>
                  /\ taken => q.via = "route"
                  /\ ~taken /\ MethodNotAllowedApplies(q.path, q.method)
                        => q.via = "405"


\* TRACE /health has a Route of its own and is answered by the wildcard
C30_Witness ==
    \E r \in RequestIds :
        /\ reqs[r].method = "TRACE" /\ reqs[r].path = "/health"
        /\ reqs[r].via = "wildcard" /\ reqs[r].st = "done"

====
